---- MODULE Spec2Model ----
(***************************************************************************)
(* LankaShop-CMS: the dashboard tables (CustomersTable, CategoriesTable,   *)
(* ProductsTable) over a schema-less document store.  Each table reads two *)
(* collections, derives its rows, filters them by a search query, and the  *)
(* category and product tables delete single documents.  The detail views  *)
(* (CustomerDetails, OrderDetails) read one document and what belongs to   *)
(* it; the forms (CategoryForm, ProductForm) load one document in edit     *)
(* mode and write one document on submit, and each editing session has its *)
(* own form, page and notices.                                             *)
(*                                                                         *)
(* Strings are sequences of one-character strings; Undefined is JavaScript *)
(* undefined (a missing field).  Numbers are integers counting thousandths *)
(* (1000 = 1.0).  A sum carries, next to its decimal value, the side of    *)
(* that value on which the IEEE double lies (off) and whether every        *)
(* addition so far was exact, so that toFixed(2) rounds a tie as the       *)
(* double does; multiples of 0.125 are held and added exactly.             *)
(***************************************************************************)
EXTENDS Integers, Sequences, FiniteSets, TLC

VARIABLES
    customersDocs,      \* store: collection "customers", in store order
    ordersDocs,         \* store: collection "orders"
    custPc,             \* CustomersTable.fetchCustomers: position
    custSnapshot,       \* customersSnapshot.docs, once read
    customers,          \* CustomersTable state: customers
    filteredCustomers,  \* CustomersTable state: filteredCustomers
    custLoading,        \* CustomersTable state: loading
    custSearchQuery,    \* CustomersTable state: searchQuery
    custCrashed,        \* the filter effect of CustomersTable threw
    categoriesDocs,     \* store: collection "categories"
    productsDocs,       \* store: collection "products"
    catPc,              \* CategoriesTable.fetchCategories: position
    catSnapshot,        \* categoriesSnapshot.docs, once read
    categories,         \* CategoriesTable state: categories
    filteredCategories, \* CategoriesTable state: filteredCategories
    catLoading,         \* CategoriesTable state: loading
    catSearchQuery,     \* CategoriesTable state: searchQuery
    deleteCategoryId,   \* CategoriesTable state: deleteCategoryId
    catDeleting,        \* ids of the deleteDoc calls of CategoriesTable in flight
    catConfirmLog,      \* what the last run of handleDeleteCategory saw and did
    catCrashed,         \* the filter effect of CategoriesTable threw
    prodPc,             \* ProductsTable.fetchProducts: position
    prodSnapshot,       \* productsSnapshot.docs, once read
    products,           \* ProductsTable state: products
    filteredProducts,   \* ProductsTable state: filteredProducts
    prodLoading,        \* ProductsTable state: loading
    prodSearchQuery,    \* ProductsTable state: searchQuery
    deleteProductId,    \* ProductsTable state: deleteProductId
    prodDeleting,       \* ids of the deleteDoc calls of ProductsTable in flight
    prodConfirms,       \* the number of runs of handleDeleteProduct so far
    prodCrashed,        \* the filter effect of ProductsTable threw
    toasts,             \* titles of the notices shown, oldest first
    addressesDocs,      \* store: collection "addresses"
    customerDetails,    \* CustomerDetails: its prop, position and state
    orderDetails,       \* OrderDetails: its prop, position and state
    route,              \* the path the router shows
    categoryForm,       \* CategoryForm, one per editing session
    productForm,        \* ProductForm, one per editing session
    storeWrites,        \* the setDoc and updateDoc calls the store has applied
    rejections          \* the calls that rejected and what became of each, oldest first

custVars == <<customersDocs, ordersDocs, custPc, custSnapshot, customers,
              filteredCustomers, custLoading, custSearchQuery, custCrashed>>

storeVars == <<categoriesDocs, productsDocs>>

catVars == <<catPc, catSnapshot, categories, filteredCategories, catLoading,
             catSearchQuery, deleteCategoryId, catDeleting, catConfirmLog, catCrashed>>

prodVars == <<prodPc, prodSnapshot, products, filteredProducts, prodLoading,
              prodSearchQuery, deleteProductId, prodDeleting, prodConfirms, prodCrashed>>

\* the detail views and the forms
pageVars == <<addressesDocs, customerDetails, orderDetails, route,
              categoryForm, productForm, storeWrites>>

vars == <<custVars, storeVars, catVars, prodVars, toasts, pageVars, rejections>>

(***************************************************************************)
(* Bounds                                                                  *)
(***************************************************************************)
MaxCustomers == 2
MaxOrders == 2
MaxCategories == 2
MaxProducts == 2
MaxConfirms == 1
MaxSubmits == 1
MaxQueries == 2
MaxIdChanges == 1

(***************************************************************************)
(* JavaScript values                                                       *)
(***************************************************************************)
Undefined == <<"undefined">>
Null == <<"null">>
EmptyStr == <<>>

\* ToBoolean of a string-or-missing value
Truthy(v) == v # Undefined /\ v # Null /\ v # EmptyStr

Str_a == <<"a">>
Str_Ab == <<"A", "b">>
Str_B == <<"B">>

UpperChars == {"A", "B", "C", "U"}

\* String.prototype.toLowerCase on one character
LowerChar(c) ==
    CASE c = "A" -> "a"
      [] c = "B" -> "b"
      [] c = "C" -> "c"
      [] c = "U" -> "u"
      [] OTHER -> c

toLowerCase(s) == [i \in 1..Len(s) |-> LowerChar(s[i])]

\* String.prototype.includes
includes(s, q) ==
    \E i \in 0..(Len(s) - Len(q)) : SubSeq(s, i + 1, i + Len(q)) = q

(***************************************************************************)
(* Numbers: Number.parseFloat and Number.prototype.toFixed(2)              *)
(***************************************************************************)
Digits == {"0", "1", "2", "3", "4", "5", "6", "7", "8", "9"}

DigitVal(c) ==
    CASE c = "0" -> 0 [] c = "1" -> 1 [] c = "2" -> 2 [] c = "3" -> 3
      [] c = "4" -> 4 [] c = "5" -> 5 [] c = "6" -> 6 [] c = "7" -> 7
      [] c = "8" -> 8 [] c = "9" -> 9

DigitChar(d) == <<"0", "1", "2", "3", "4", "5", "6", "7", "8", "9">>[d + 1]

NaN == [nan |-> TRUE, v |-> 0]
Num(v) == [nan |-> FALSE, v |-> v]

\* the length of the longest prefix of s[i..] made of digits
RECURSIVE DigitRun(_, _)
DigitRun(s, i) ==
    IF i <= Len(s) /\ s[i] \in Digits THEN 1 + DigitRun(s, i + 1) ELSE 0

\* the value of the digits s[i..i+n-1] read as an integer
RECURSIVE IntOf(_, _, _)
IntOf(s, i, n) ==
    IF n = 0 THEN 0 ELSE IntOf(s, i, n - 1) * 10 + DigitVal(s[i + n - 1])

\* the value, in thousandths, of the fraction digits s[i..i+n-1]
FracOf(s, i, n) ==
    (IF n >= 1 THEN DigitVal(s[i]) * 100 ELSE 0)
    + (IF n >= 2 THEN DigitVal(s[i + 1]) * 10 ELSE 0)
    + (IF n >= 3 THEN DigitVal(s[i + 2]) ELSE 0)

\* Number.parseFloat: an optional sign, digits, an optional fraction; the
\* longest such prefix is the value, and NaN when there is none.
parseFloat(s) ==
    IF s = Undefined \/ s = Null THEN NaN
    ELSE
      LET neg == Len(s) >= 1 /\ s[1] = "-"
          b == IF Len(s) >= 1 /\ s[1] \in {"-", "+"} THEN 2 ELSE 1
          ni == DigitRun(s, b)
          dot == b + ni <= Len(s) /\ s[b + ni] = "."
          nf == IF dot THEN DigitRun(s, b + ni + 1) ELSE 0
          mag == IntOf(s, b, ni) * 1000 + FracOf(s, b + ni + 1, nf)
      IN  IF ni = 0 /\ nf = 0 THEN NaN
          ELSE Num(IF neg THEN 0 - mag ELSE mag)

\* `x || 0` on a number: NaN and 0 are falsy
OrZero(n) == IF n.nan THEN 0 ELSE n.v

\* the decimal digits of a natural number
RECURSIVE NatStr(_)
NatStr(n) ==
    IF n < 10 THEN <<DigitChar(n)>> ELSE NatStr(n \div 10) \o <<DigitChar(n % 10)>>

\* Number.prototype.toFixed(2): the nearest hundredth, the larger one of two
\* equally near, of the magnitude; "-" in front of a negative number.
toFixed2(v) ==
    LET a == IF v < 0 THEN 0 - v ELSE v
        n == (a + 5) \div 10
    IN  (IF v < 0 THEN <<"-">> ELSE <<>>)
        \o NatStr(n \div 100) \o <<".">>
        \o <<DigitChar((n % 100) \div 10), DigitChar(n % 10)>>

Str_0_00 == <<"0", ".", "0", "0">>

(***************************************************************************)
(* Binary64.  A number of the code is a double; the model holds the        *)
(* decimal it stands for, in thousandths, and on which side of that        *)
(* decimal the double lies (off: -1 below, 0 equal, 1 above, in            *)
(* magnitude).  The double nearest to n/1000 in the binade 2^k has 52 - k  *)
(* fraction bits, so its side is given by the remainder of n * 2^(52-k)    *)
(* by 1000; that remainder is never 500, 2^(52-k) being a multiple of 8.   *)
(***************************************************************************)
RECURSIVE Pow2Mod(_, _)
Pow2Mod(e, m) == IF e = 0 THEN 1 % m ELSE (2 * Pow2Mod(e - 1, m)) % m

\* k with 2^k <= n/1000 < 2^(k+1), for n >= 1000: searched upwards from k
RECURSIVE BinadeFrom(_, _)
BinadeFrom(n, k) == IF n < 2000 * (2 ^ k) THEN k ELSE BinadeFrom(n, k + 1)

\* j with 2^(-j) <= n/1000 < 2^(1-j), for 1 <= n < 1000: searched upwards from j
RECURSIVE BinadeBelowOneFrom(_, _)
BinadeBelowOneFrom(n, j) ==
    IF n * (2 ^ j) >= 1000 THEN j ELSE BinadeBelowOneFrom(n, j + 1)

\* the exponent of the binade of n/1000, n >= 1
Binade(n) == IF n >= 1000 THEN BinadeFrom(n, 0) ELSE 0 - BinadeBelowOneFrom(n, 1)

\* the side of n/1000 on which the double nearest to it lies, n >= 0
Binary64Off(n) ==
    IF n = 0 THEN 0
    ELSE LET r == ((n % 1000) * Pow2Mod(52 - Binade(n), 1000)) % 1000
         IN  IF r = 0 THEN 0 ELSE IF r < 500 THEN 0 - 1 ELSE 1

\* total + x is computed without rounding: total is 0, or both are multiples
\* of 0.125 held exactly, or one is a whole number held exactly and the sum
\* is in the binade of the other
AddsExactly(total, off, x, xoff) ==
    \/ total = 0
    \/ x = 0
    \/ off = 0 /\ xoff = 0 /\ total % 125 = 0 /\ x % 125 = 0
    \/ /\ total > 0 /\ x > 0
       /\ \/ xoff = 0 /\ x % 1000 = 0 /\ Binade(total + x) = Binade(total)
          \/ off = 0 /\ total % 1000 = 0 /\ Binade(total + x) = Binade(x)

\* toFixed2 truncating to two decimals
toFixed2Truncating(v, off) ==
    LET a == IF v < 0 THEN 0 - v ELSE v
        n == a \div 10
    IN  (IF v < 0 THEN <<"-">> ELSE <<>>)
        \o NatStr(n \div 100) \o <<".">>
        \o <<DigitChar((n % 100) \div 10), DigitChar(n % 10)>>

\* Number.prototype.toFixed(2) on a double: the hundredth nearest to the
\* double; when the decimal is half-way between two hundredths the side of
\* the double decides, and a double exactly half-way takes the larger
toFixed2Binary64(v, off) ==
    LET a == IF v < 0 THEN 0 - v ELSE v
        n == IF a % 10 = 5 /\ off < 0 THEN a \div 10 ELSE (a + 5) \div 10
    IN  (IF v < 0 THEN <<"-">> ELSE <<>>)
        \o NatStr(n \div 100) \o <<".">>
        \o <<DigitChar((n % 100) \div 10), DigitChar(n % 10)>>

(***************************************************************************)
(* The store (Firestore), as CustomersTable reads it                       *)
(***************************************************************************)
CustId(i) == <<"c", DigitChar(i)>>
OrderId(i) == <<"o", DigitChar(i)>>

Str_2_5 == <<"2", ".", "5">>
Str_0_125 == <<"0", ".", "1", "2", "5">>
Str_x == <<"x">>

\* the customer documents enumerated: <<userId, createdAt>>
CustomerValues ==
    { <<Undefined, 1>>, <<EmptyStr, 1>>, <<Str_a, 1>>, <<Str_a, 2>>, <<Str_Ab, 2>> }

\* the order documents enumerated: <<userId, totalAmount>>
OrderValues ==
    { <<Undefined, Str_2_5>>, <<EmptyStr, Str_2_5>>, <<Str_a, Str_2_5>>,
      <<Str_a, Str_0_125>>, <<Str_a, Str_x>>, <<Str_a, Undefined>>,
      <<Str_Ab, Str_0_125>> }

CustomerStores ==
    UNION {
      { [i \in 1..n |-> [id |-> CustId(i), userId |-> f[i][1], createdAt |-> f[i][2]]] :
          f \in [1..n -> CustomerValues] } : n \in 0..MaxCustomers }

OrderStores ==
    UNION {
      { [i \in 1..n |-> [id |-> OrderId(i), userId |-> f[i][1], totalAmount |-> f[i][2]]] :
          f \in [1..n -> OrderValues] } : n \in 0..MaxOrders }

\* getDocs(query(collection, orderBy("createdAt", "desc"))): the documents by
\* descending createdAt, and by descending document name among equal ones.
RECURSIVE OrderByDescFrom(_, _)
OrderByDescFrom(docs, left) ==
    IF left = {} THEN <<>>
    ELSE LET i == CHOOSE k \in left : \A j \in left :
                     \/ docs[k].createdAt > docs[j].createdAt
                     \/ docs[k].createdAt = docs[j].createdAt /\ k >= j
         IN  <<docs[i]>> \o OrderByDescFrom(docs, left \ {i})

\* the query with orderBy("createdAt"), which sorts ascending
OrderByCreatedAtAsc(docs) ==
    LET d == OrderByDescFrom(docs, DOMAIN docs)
    IN  [i \in 1..Len(d) |-> d[Len(d) + 1 - i]]

OrderByCreatedAtDesc(docs) == OrderByDescFrom(docs, DOMAIN docs)

(***************************************************************************)
(* CustomersTable                                                          *)
(***************************************************************************)
NoEntry == [total |-> 0, off |-> 0, exact |-> TRUE, count |-> 0]

\* customerOrders[order.userId].total += Number.parseFloat(order.totalAmount) || 0
\* and .count += 1; exact records that no addition so far has rounded
AddOrder(prev, totalAmount) ==
    LET x == OrZero(parseFloat(totalAmount))
        mag == IF x < 0 THEN 0 - x ELSE x
        xoff == Binary64Off(mag)
    IN  [total |-> prev.total + x,
         off |-> IF prev.total = 0 THEN xoff ELSE IF x = 0 THEN prev.off
                 ELSE IF xoff = 0 THEN prev.off ELSE xoff,
         exact |-> prev.exact /\ AddsExactly(prev.total, prev.off, x, xoff),
         count |-> prev.count + 1]

RECURSIVE GroupOrders(_, _)

\* GroupOrders without the `if (order.userId)` guard
GroupOrdersUnguarded(orders, i) ==
    IF i = 0 THEN <<>>
    ELSE LET m == GroupOrders(orders, i - 1)
             order == orders[i]
             prev == IF order.userId \in DOMAIN m THEN m[order.userId] ELSE NoEntry
         IN  [k \in DOMAIN m \cup {order.userId} |->
                IF k = order.userId
                THEN AddOrder(prev, order.totalAmount)
                ELSE m[k]]

\* GroupOrders passing over an order whose totalAmount is not a number
GroupOrdersSkipUnparseable(orders, i) ==
    IF i = 0 THEN <<>>
    ELSE LET m == GroupOrders(orders, i - 1)
             order == orders[i]
             prev == IF order.userId \in DOMAIN m THEN m[order.userId] ELSE NoEntry
         IN  IF Truthy(order.userId) /\ ~parseFloat(order.totalAmount).nan
             THEN [k \in DOMAIN m \cup {order.userId} |->
                     IF k = order.userId
                     THEN AddOrder(prev, order.totalAmount)
                     ELSE m[k]]
             ELSE m

\* customerOrders after the forEach has visited the first i orders
GroupOrders(orders, i) ==
    IF i = 0 THEN <<>>
    ELSE LET m == GroupOrders(orders, i - 1)
             order == orders[i]
             prev == IF order.userId \in DOMAIN m THEN m[order.userId] ELSE NoEntry
         IN  IF Truthy(order.userId)
             THEN [k \in DOMAIN m \cup {order.userId} |->
                     IF k = order.userId
                     THEN AddOrder(prev, order.totalAmount)
                     ELSE m[k]]
             ELSE m

\* customerOrders[userId]?.total.toFixed(2) || "0.00"
RowTotalAmount(customerOrders, userId) ==
    IF userId \in DOMAIN customerOrders
    THEN toFixed2Binary64(customerOrders[userId].total, customerOrders[userId].off)
    ELSE Str_0_00

\* RowOrderCount reporting whether there is an entry instead of its count
RowOrderCountAsFlag(customerOrders, userId) ==
    IF userId \in DOMAIN customerOrders THEN 1 ELSE 0

\* RowOrderCount showing some other user's count when the customer has none
RowOrderCountOfAnyUser(customerOrders, userId) ==
    IF userId \in DOMAIN customerOrders THEN customerOrders[userId].count
    ELSE IF DOMAIN customerOrders # {}
         THEN customerOrders[CHOOSE k \in DOMAIN customerOrders : TRUE].count
         ELSE 0

\* customerOrders[userId]?.count || 0
RowOrderCount(customerOrders, userId) ==
    IF userId \in DOMAIN customerOrders THEN customerOrders[userId].count ELSE 0

\* customersData: one row per document of customersSnapshot
CustomersData(snapshot, orders) ==
    LET customerOrders == GroupOrders(orders, Len(orders))
    IN  [i \in 1..Len(snapshot) |->
           [id |-> snapshot[i].id,
            userId |-> snapshot[i].userId,
            createdAt |-> snapshot[i].createdAt,
            totalAmount |-> RowTotalAmount(customerOrders, snapshot[i].userId),
            orderCount |-> RowOrderCount(customerOrders, snapshot[i].userId)]]

\* CustomerMatches comparing with the query as typed
CustomerMatchesQueryAsTyped(customer, q) ==
    includes(toLowerCase(customer.userId), q)

\* customer.userId.toLowerCase().includes(searchQuery.toLowerCase())
CustomerMatches(customer, q) ==
    includes(toLowerCase(customer.userId), toLowerCase(q))

\* the filter effect: customers.filter(...) for a non-empty query
FilterCustomers(rows, q) ==
    IF Truthy(q)
    THEN LET Keep(c) == CustomerMatches(c, q) IN SelectSeq(rows, Keep)
    ELSE rows

\* the effect throws a TypeError when it calls toLowerCase on a missing userId
FilterCustomersThrows(rows, q) ==
    Truthy(q) /\ \E i \in 1..Len(rows) : rows[i].userId = Undefined

SearchQueries == {EmptyStr, Str_a, Str_B}

Toast(title) == Append(toasts, title)

CustInit ==
    /\ customersDocs \in CustomerStores
    /\ ordersDocs \in OrderStores
    /\ custPc = "getCustomers"
    /\ custSnapshot = <<>>
    /\ customers = <<>>
    /\ filteredCustomers = <<>>
    /\ custLoading = TRUE
    /\ custSearchQuery = EmptyStr
    /\ custCrashed = FALSE

\* await getDocs(query(collection(db, "customers"), orderBy("createdAt", "desc")))
CustGetCustomers ==
    /\ custPc = "getCustomers"
    /\ custSnapshot' = OrderByCreatedAtDesc(customersDocs)
    /\ custPc' = "getOrders"
    /\ UNCHANGED <<pageVars, rejections, customersDocs, ordersDocs, customers, filteredCustomers,
                   custLoading, custSearchQuery, custCrashed, toasts,
                   storeVars, catVars, prodVars>>

\* await getDocs(collection(db, "orders")), the aggregation, the two setState
\* calls, finally setLoading(false), and the filter effect the new rows trigger
CustGetOrders ==
    /\ custPc = "getOrders"
    /\ LET data == CustomersData(custSnapshot, ordersDocs)
       IN  /\ customers' = data
           /\ IF FilterCustomersThrows(data, custSearchQuery)
              THEN /\ custCrashed' = TRUE
                   /\ filteredCustomers' = data
              ELSE /\ custCrashed' = FALSE
                   /\ filteredCustomers' = FilterCustomers(data, custSearchQuery)
    /\ custLoading' = FALSE
    /\ custPc' = "done"
    /\ UNCHANGED <<pageVars, rejections, customersDocs, ordersDocs, custSnapshot, custSearchQuery, toasts,
                   storeVars, catVars, prodVars>>

\* CustFetchRejected without the finally block
CustFetchRejectedKeepsLoading ==
    /\ custPc \in {"getCustomers", "getOrders"}
    /\ toasts' = Toast("Error: Failed to load customers")
    /\ custPc' = "failed"
    /\ rejections' = Append(rejections, <<"CustomersTable.fetchCustomers", "notice">>)
    /\ UNCHANGED <<pageVars, customersDocs, ordersDocs, custSnapshot, customers,
                   filteredCustomers, custSearchQuery, custCrashed, custLoading,
                   storeVars, catVars, prodVars>>

\* either read rejects: catch shows the toast, finally setLoading(false)
CustFetchRejected ==
    /\ custPc \in {"getCustomers", "getOrders"}
    /\ toasts' = Toast("Error: Failed to load customers")
    /\ custLoading' = FALSE
    /\ custPc' = "failed"
    /\ rejections' = Append(rejections, <<"CustomersTable.fetchCustomers", "notice">>)
    /\ UNCHANGED <<pageVars, customersDocs, ordersDocs, custSnapshot, customers,
                   filteredCustomers, custSearchQuery, custCrashed,
                   storeVars, catVars, prodVars>>

\* onChange of the search input: setSearchQuery, then the filter effect
CustSetSearchQuery(q) ==
    /\ custPc # "idle"
    /\ ~custCrashed
    /\ q # custSearchQuery
    /\ custSearchQuery' = q
    /\ IF FilterCustomersThrows(customers, q)
       THEN /\ custCrashed' = TRUE
            /\ UNCHANGED filteredCustomers
       ELSE /\ filteredCustomers' = FilterCustomers(customers, q)
            /\ UNCHANGED custCrashed
    /\ UNCHANGED <<pageVars, rejections, customersDocs, ordersDocs, custPc, custSnapshot, customers,
                   custLoading, toasts, storeVars, catVars, prodVars>>

CustNext ==
    \/ CustGetCustomers
    \/ CustGetOrders
    \/ CustFetchRejected
    \/ \E q \in SearchQueries : CustSetSearchQuery(q)

(***************************************************************************)
(* The store, as CategoriesTable and ProductsTable read it                 *)
(***************************************************************************)
CatId(i) == <<"g", DigitChar(i)>>
ProdId(i) == <<"p", DigitChar(i)>>
Str_gX == <<"g", "X">>

CategoryNames == {Undefined, Str_a, Str_Ab}

CategoryIds == { CatId(i) : i \in 1..MaxCategories }

\* the values of Product.categoryId enumerated: missing, null, empty, and
\* the ids of the categories
ProductCategoryIds == {Undefined, Null, EmptyStr} \cup CategoryIds

\* the store when no table has been opened: no read in flight, nothing shown
CustIdle ==
    /\ customersDocs = <<>>
    /\ ordersDocs = <<>>
    /\ custPc = "idle"
    /\ custSnapshot = <<>>
    /\ customers = <<>>
    /\ filteredCustomers = <<>>
    /\ custLoading = TRUE
    /\ custSearchQuery = EmptyStr
    /\ custCrashed = FALSE

CategoryStoresOf(Names) ==
    UNION {
      { [i \in 1..n |-> [id |-> CatId(i), name |-> f[i]]] :
          f \in [1..n -> Names] } : n \in 0..MaxCategories }

ProductStoresOf(CategoryIdValues, Names, Descriptions) ==
    UNION {
      { [i \in 1..n |-> [id |-> ProdId(i), categoryId |-> f[i][1],
                         name |-> f[i][2], description |-> f[i][3]]] :
          f \in [1..n -> CategoryIdValues \X Names \X Descriptions] } :
      n \in 0..MaxProducts }

(***************************************************************************)
(* CategoriesTable                                                         *)
(***************************************************************************)
RECURSIVE CountProducts(_, _)

\* CountProducts storing 1 for a category instead of adding 1 to its count
CountProductsNoAccumulate(prods, i) ==
    IF i = 0 THEN <<>>
    ELSE LET m == CountProducts(prods, i - 1)
             categoryId == prods[i].categoryId
         IN  IF Truthy(categoryId)
             THEN [k \in DOMAIN m \cup {categoryId} |->
                     IF k = categoryId THEN 1 ELSE m[k]]
             ELSE m

\* productCounts after the forEach has visited the first i products
CountProducts(prods, i) ==
    IF i = 0 THEN <<>>
    ELSE LET m == CountProducts(prods, i - 1)
             categoryId == prods[i].categoryId
         IN  IF Truthy(categoryId)
             THEN [k \in DOMAIN m \cup {categoryId} |->
                     IF k = categoryId
                     THEN (IF categoryId \in DOMAIN m THEN m[categoryId] ELSE 0) + 1
                     ELSE m[k]]
             ELSE m

\* productCounts[doc.id] || 0
RowProductCount(productCounts, id) ==
    IF id \in DOMAIN productCounts THEN productCounts[id] ELSE 0

\* CategoriesData with one more row, which counts the products that have no
\* categoryId
CategoriesDataWithUncategorized(snapshot, prods) ==
    LET productCounts == CountProducts(prods, Len(prods))
        rows == [i \in 1..Len(snapshot) |->
                   [id |-> snapshot[i].id,
                    name |-> snapshot[i].name,
                    productCount |-> RowProductCount(productCounts, snapshot[i].id)]]
        none == { j \in DOMAIN prods : ~Truthy(prods[j].categoryId) }
    IN  IF none = {} THEN rows
        ELSE Append(rows, [id |-> EmptyStr, name |-> <<"U">>,
                           productCount |-> Cardinality(none)])

\* categoriesData: one row per document of categoriesSnapshot
CategoriesData(snapshot, prods) ==
    LET productCounts == CountProducts(prods, Len(prods))
    IN  [i \in 1..Len(snapshot) |->
           [id |-> snapshot[i].id,
            name |-> snapshot[i].name,
            productCount |-> RowProductCount(productCounts, snapshot[i].id)]]

\* category.name.toLowerCase().includes(searchQuery.toLowerCase())
CategoryMatches(category, q) ==
    includes(toLowerCase(category.name), toLowerCase(q))

\* the filter effect: categories.filter(...) for a non-empty query
FilterCategories(rows, q) ==
    IF Truthy(q)
    THEN LET Keep(c) == CategoryMatches(c, q) IN SelectSeq(rows, Keep)
    ELSE rows

\* the effect throws a TypeError when it calls toLowerCase on a missing name
FilterCategoriesThrows(rows, q) ==
    Truthy(q) /\ \E i \in 1..Len(rows) : rows[i].name = Undefined

\* prev.filter((category) => category.id !== id)
WithoutId(rows, id) ==
    LET Keep(c) == c.id # id IN SelectSeq(rows, Keep)

\* categories.find((c) => c.id === id)?.productCount, 0 when there is none
FoundProductCount(rows, id) ==
    IF \E i \in DOMAIN rows : rows[i].id = id
    THEN rows[CHOOSE i \in DOMAIN rows :
                /\ rows[i].id = id
                /\ \A j \in DOMAIN rows : rows[j].id = id => i <= j].productCount
    ELSE 0

\* the number of products in the store that are in category id
StoreProductCount(id) ==
    Cardinality({ i \in DOMAIN productsDocs : productsDocs[i].categoryId = id })

NoConfirm == [n |-> 0, id |-> Null, checked |-> 0, inStore |-> 0, issued |-> FALSE]

CatViewInit ==
    /\ catPc = "getCategories"
    /\ catSnapshot = <<>>
    /\ categories = <<>>
    /\ filteredCategories = <<>>
    /\ catLoading = TRUE
    /\ catSearchQuery = EmptyStr
    /\ deleteCategoryId = Null
    /\ catDeleting = <<>>
    /\ catConfirmLog = NoConfirm
    /\ catCrashed = FALSE

\* CategoriesTable is mounted on a store of at most MaxCategories + 2
\* categories and products
CatInit ==
    /\ categoriesDocs \in CategoryStoresOf(CategoryNames)
    /\ productsDocs \in ProductStoresOf(ProductCategoryIds, {Str_a}, {Str_a})
    /\ Len(categoriesDocs) + Len(productsDocs) <= MaxCategories + 2
    /\ CatViewInit

\* await getDocs(collection(db, "categories"))
CatGetCategories ==
    /\ catPc = "getCategories"
    /\ catSnapshot' = categoriesDocs
    /\ catPc' = "getProducts"
    /\ UNCHANGED <<pageVars, rejections, custVars, prodVars, storeVars, categories, filteredCategories, catLoading,
                   catSearchQuery, deleteCategoryId, catDeleting, catConfirmLog,
                   catCrashed, toasts>>

\* await getDocs(collection(db, "products")), the counting, the two setState
\* calls, finally setLoading(false), and the filter effect the new rows trigger
CatGetProducts ==
    /\ catPc = "getProducts"
    /\ LET data == CategoriesData(catSnapshot, productsDocs)
       IN  /\ categories' = data
           /\ IF FilterCategoriesThrows(data, catSearchQuery)
              THEN /\ catCrashed' = TRUE
                   /\ filteredCategories' = data
              ELSE /\ catCrashed' = FALSE
                   /\ filteredCategories' = FilterCategories(data, catSearchQuery)
    /\ catLoading' = FALSE
    /\ catPc' = "done"
    /\ UNCHANGED <<pageVars, rejections, custVars, prodVars, storeVars, catSnapshot, catSearchQuery, deleteCategoryId,
                   catDeleting, catConfirmLog, toasts>>

\* either read rejects: catch shows the toast, finally setLoading(false)
CatFetchRejected ==
    /\ catPc \in {"getCategories", "getProducts"}
    /\ toasts' = Toast("Error: Failed to load categories")
    /\ catLoading' = FALSE
    /\ catPc' = "failed"
    /\ rejections' = Append(rejections, <<"CategoriesTable.fetchCategories", "notice">>)
    /\ UNCHANGED <<pageVars, custVars, prodVars, storeVars, catSnapshot, categories, filteredCategories,
                   catSearchQuery, deleteCategoryId, catDeleting, catConfirmLog,
                   catCrashed>>

\* onChange of the search input: setSearchQuery, then the filter effect
CatSetSearchQuery(q) ==
    /\ catPc # "idle"
    /\ ~catCrashed
    /\ q # catSearchQuery
    /\ catSearchQuery' = q
    /\ IF FilterCategoriesThrows(categories, q)
       THEN /\ catCrashed' = TRUE
            /\ UNCHANGED filteredCategories
       ELSE /\ filteredCategories' = FilterCategories(categories, q)
            /\ UNCHANGED catCrashed
    /\ UNCHANGED <<pageVars, rejections, custVars, prodVars, storeVars, catPc, catSnapshot, categories, catLoading,
                   deleteCategoryId, catDeleting, catConfirmLog, toasts>>

\* the Delete menu item of a displayed row: setDeleteCategoryId(category.id)
CatAskDelete(i) ==
    /\ ~catCrashed
    /\ ~catLoading
    /\ i \in DOMAIN filteredCategories
    /\ deleteCategoryId # filteredCategories[i].id
    /\ deleteCategoryId' = filteredCategories[i].id
    /\ UNCHANGED <<pageVars, rejections, custVars, prodVars, storeVars, catPc, catSnapshot, categories,
                   filteredCategories, catLoading, catSearchQuery, catDeleting,
                   catConfirmLog, catCrashed, toasts>>

\* onOpenChange of the dialog: setDeleteCategoryId(null)
CatCloseDialog ==
    /\ ~catCrashed
    /\ deleteCategoryId # Null
    /\ deleteCategoryId' = Null
    /\ UNCHANGED <<pageVars, rejections, custVars, prodVars, storeVars, catPc, catSnapshot, categories,
                   filteredCategories, catLoading, catSearchQuery, catDeleting,
                   catConfirmLog, catCrashed, toasts>>

\* handleDeleteCategory without the return after the notice
CatConfirmDeleteNoReturn ==
    /\ ~catCrashed
    /\ deleteCategoryId # Null
    /\ catConfirmLog.n < MaxConfirms
    /\ LET checked == FoundProductCount(categories, deleteCategoryId)
           blocked == checked > 0
       IN  /\ catConfirmLog' = [n |-> catConfirmLog.n + 1,
                                id |-> deleteCategoryId,
                                checked |-> checked,
                                inStore |-> StoreProductCount(deleteCategoryId),
                                issued |-> TRUE]
           /\ toasts' = IF blocked THEN Toast("Cannot delete category") ELSE toasts
           /\ deleteCategoryId' = IF blocked THEN Null ELSE deleteCategoryId
           /\ catDeleting' = Append(catDeleting, deleteCategoryId)
    /\ UNCHANGED <<pageVars, rejections, custVars, prodVars, storeVars, catPc, catSnapshot, categories,
                   filteredCategories, catLoading, catSearchQuery, catCrashed>>

\* handleDeleteCategory up to its await: the check of the row's productCount,
\* then either the notice and the return, or the call of deleteDoc
CatConfirmDelete ==
    /\ ~catCrashed
    /\ deleteCategoryId # Null
    /\ catConfirmLog.n < MaxConfirms
    /\ LET checked == FoundProductCount(categories, deleteCategoryId)
           blocked == checked > 0
       IN  /\ catConfirmLog' = [n |-> catConfirmLog.n + 1,
                                id |-> deleteCategoryId,
                                checked |-> checked,
                                inStore |-> StoreProductCount(deleteCategoryId),
                                issued |-> ~blocked]
           /\ IF blocked
              THEN /\ toasts' = Toast("Cannot delete category")
                   /\ deleteCategoryId' = Null
                   /\ UNCHANGED catDeleting
              ELSE /\ catDeleting' = Append(catDeleting, deleteCategoryId)
                   /\ UNCHANGED <<toasts, deleteCategoryId>>
    /\ UNCHANGED <<pageVars, rejections, custVars, prodVars, storeVars, catPc, catSnapshot, categories,
                   filteredCategories, catLoading, catSearchQuery, catCrashed>>

\* CatDeleteResolved without setFilteredCategories and without the filter
\* effect
CatDeleteResolvedKeepsFilteredRow(k) ==
    /\ k \in DOMAIN catDeleting
    /\ categoriesDocs' = WithoutId(categoriesDocs, catDeleting[k])
    /\ categories' = WithoutId(categories, catDeleting[k])
    /\ catDeleting' = SubSeq(catDeleting, 1, k - 1) \o SubSeq(catDeleting, k + 1, Len(catDeleting))
    /\ toasts' = Toast("Category deleted")
    /\ deleteCategoryId' = Null
    /\ UNCHANGED <<pageVars, rejections, custVars, prodVars, productsDocs, catPc, catSnapshot, catLoading,
                   catSearchQuery, catConfirmLog, filteredCategories, catCrashed>>

\* deleteDoc resolves: the store has removed the document; the two functional
\* setState calls, the toast, finally setDeleteCategoryId(null), and the filter
\* effect the new rows trigger
CatDeleteResolved(k) ==
    /\ k \in DOMAIN catDeleting
    /\ LET id == catDeleting[k]
           rows == WithoutId(categories, id)
       IN  /\ categoriesDocs' = WithoutId(categoriesDocs, id)
           /\ categories' = rows
           /\ IF catCrashed
              THEN UNCHANGED <<filteredCategories, catCrashed>>
              ELSE IF rows # categories /\ FilterCategoriesThrows(rows, catSearchQuery)
                   THEN /\ catCrashed' = TRUE
                        /\ filteredCategories' = WithoutId(filteredCategories, id)
                   ELSE /\ UNCHANGED catCrashed
                        /\ filteredCategories' =
                             IF rows # categories
                             THEN FilterCategories(rows, catSearchQuery)
                             ELSE WithoutId(filteredCategories, id)
    /\ catDeleting' = SubSeq(catDeleting, 1, k - 1) \o SubSeq(catDeleting, k + 1, Len(catDeleting))
    /\ toasts' = Toast("Category deleted")
    /\ deleteCategoryId' = Null
    /\ UNCHANGED <<pageVars, rejections, custVars, prodVars, productsDocs, catPc, catSnapshot, catLoading,
                   catSearchQuery, catConfirmLog>>

\* CatDeleteRejected with the row taken out of the lists before the outcome of
\* deleteDoc is known
CatDeleteRejectedRemovesRow(k) ==
    /\ k \in DOMAIN catDeleting
    /\ catDeleting' = SubSeq(catDeleting, 1, k - 1) \o SubSeq(catDeleting, k + 1, Len(catDeleting))
    /\ categories' = WithoutId(categories, catDeleting[k])
    /\ filteredCategories' = WithoutId(filteredCategories, catDeleting[k])
    /\ toasts' = Toast("Error: Failed to delete category")
    /\ deleteCategoryId' = Null
    /\ rejections' = Append(rejections, <<"CategoriesTable.handleDeleteCategory", "notice">>)
    /\ UNCHANGED <<pageVars, custVars, prodVars, storeVars, catPc, catSnapshot,
                   catLoading, catSearchQuery, catConfirmLog, catCrashed>>

\* deleteDoc rejects: catch shows the toast, finally setDeleteCategoryId(null)
CatDeleteRejected(k) ==
    /\ k \in DOMAIN catDeleting
    /\ catDeleting' = SubSeq(catDeleting, 1, k - 1) \o SubSeq(catDeleting, k + 1, Len(catDeleting))
    /\ toasts' = Toast("Error: Failed to delete category")
    /\ deleteCategoryId' = Null
    /\ rejections' = Append(rejections, <<"CategoriesTable.handleDeleteCategory", "notice">>)
    /\ UNCHANGED <<pageVars, custVars, prodVars, storeVars, catPc, catSnapshot, categories,
                   filteredCategories, catLoading, catSearchQuery, catConfirmLog,
                   catCrashed>>

\* another client creates a product in category g (setDoc under a new id)
OtherPutProduct(g) ==
    /\ Len(productsDocs) < MaxProducts
    /\ LET i == CHOOSE k \in 1..MaxProducts :
                  /\ \A j \in DOMAIN productsDocs : productsDocs[j].id # ProdId(k)
                  /\ \A l \in 1..(k - 1) :
                       \E j \in DOMAIN productsDocs : productsDocs[j].id = ProdId(l)
       IN  productsDocs' = Append(productsDocs,
             [id |-> ProdId(i), categoryId |-> g, name |-> Str_a, description |-> Str_a])
    /\ UNCHANGED <<pageVars, rejections, custVars, prodVars, categoriesDocs, catVars, toasts>>

\* another client deletes a product
OtherDeleteProduct(i) ==
    /\ i \in DOMAIN productsDocs
    /\ productsDocs' = WithoutId(productsDocs, productsDocs[i].id)
    /\ UNCHANGED <<pageVars, rejections, custVars, prodVars, categoriesDocs, catVars, toasts>>

CatOwnNext ==
    \/ CatGetCategories
    \/ CatGetProducts
    \/ CatFetchRejected
    \/ \E q \in SearchQueries : CatSetSearchQuery(q)
    \/ \E i \in 1..MaxCategories : CatAskDelete(i)
    \/ CatCloseDialog
    \/ CatConfirmDelete
    \/ \E k \in 1..MaxConfirms : CatDeleteResolved(k)
    \/ \E k \in 1..MaxConfirms : CatDeleteRejected(k)

\* CategoriesTable beside other clients that write the products collection
CatSharedNext ==
    \/ CatOwnNext
    \/ \E g \in CategoryIds : OtherPutProduct(g)
    \/ \E i \in 1..MaxProducts : OtherDeleteProduct(i)

\* nothing of CategoriesTable is open
CatIdle ==
    /\ catPc = "idle"
    /\ catSnapshot = <<>>
    /\ categories = <<>>
    /\ filteredCategories = <<>>
    /\ catLoading = TRUE
    /\ catSearchQuery = EmptyStr
    /\ deleteCategoryId = Null
    /\ catDeleting = <<>>
    /\ catConfirmLog = NoConfirm
    /\ catCrashed = FALSE

(***************************************************************************)
(* ProductsTable                                                           *)
(***************************************************************************)
Str_U == <<"U">>
Str_Uncategorized ==
    <<"U", "n", "c", "a", "t", "e", "g", "o", "r", "i", "z", "e", "d">>

\* the product documents enumerated: <<categoryId, name, description>>
ProductValues ==
    { <<Undefined, Str_a, Str_B>>, <<Null, Str_B, Undefined>>,
      <<EmptyStr, Str_B, Str_B>>, <<Str_gX, Str_a, Str_a>>,
      <<CatId(1), Str_B, Str_B>>, <<CatId(2), Str_a, Str_Ab>> }

ProductStores ==
    UNION {
      { [i \in 1..n |-> [id |-> ProdId(i), categoryId |-> f[i][1],
                         name |-> f[i][2], description |-> f[i][3]]] :
          f \in [1..n -> ProductValues] } : n \in 0..MaxProducts }

ProductQueries == {EmptyStr, Str_a, Str_U}

\* categoriesMap after the forEach has visited the first i categories
RECURSIVE CategoriesMap(_, _)
CategoriesMap(cats, i) ==
    IF i = 0 THEN <<>>
    ELSE LET m == CategoriesMap(cats, i - 1)
         IN  [k \in DOMAIN m \cup {cats[i].id} |->
                IF k = cats[i].id THEN cats[i].name ELSE m[k]]

\* categoriesMap.get(id)
MapGet(map, id) == IF id \in DOMAIN map THEN map[id] ELSE Undefined

\* ResolveCategoryName looking every categoryId up, a falsy one too
ResolveCategoryNameUnguarded(categoriesMap, categoryId) ==
    MapGet(categoriesMap, categoryId)

\* data.categoryId ? categoriesMap.get(data.categoryId) : "Uncategorized"
ResolveCategoryName(categoriesMap, categoryId) ==
    IF Truthy(categoryId) THEN MapGet(categoriesMap, categoryId) ELSE Str_Uncategorized

\* productsData: one row per document of productsSnapshot
ProductsData(snapshot, cats) ==
    LET categoriesMap == CategoriesMap(cats, Len(cats))
    IN  [i \in 1..Len(snapshot) |->
           [id |-> snapshot[i].id,
            name |-> snapshot[i].name,
            description |-> snapshot[i].description,
            categoryId |-> snapshot[i].categoryId,
            categoryName |-> ResolveCategoryName(categoriesMap, snapshot[i].categoryId)]]

\* name, then description, then categoryName (?.) contain the query
ProductMatches(product, q) ==
    \/ includes(toLowerCase(product.name), toLowerCase(q))
    \/ includes(toLowerCase(product.description), toLowerCase(q))
    \/ /\ product.categoryName # Undefined
       /\ includes(toLowerCase(product.categoryName), toLowerCase(q))

\* the predicate throws a TypeError on a missing name, and on a missing
\* description when the name does not contain the query
ProductMatchThrows(product, q) ==
    \/ product.name = Undefined
    \/ /\ ~includes(toLowerCase(product.name), toLowerCase(q))
       /\ product.description = Undefined

\* the filter effect: products.filter(...) for a non-empty query
FilterProducts(rows, q) ==
    IF Truthy(q)
    THEN LET Keep(r) == ProductMatches(r, q) IN SelectSeq(rows, Keep)
    ELSE rows

FilterProductsThrows(rows, q) ==
    Truthy(q) /\ \E i \in 1..Len(rows) : ProductMatchThrows(rows[i], q)

ProdViewInit ==
    /\ prodPc = "getProducts"
    /\ prodSnapshot = <<>>
    /\ products = <<>>
    /\ filteredProducts = <<>>
    /\ prodLoading = TRUE
    /\ prodSearchQuery = EmptyStr
    /\ deleteProductId = Null
    /\ prodDeleting = <<>>
    /\ prodConfirms = 0
    /\ prodCrashed = FALSE

ProdInit ==
    /\ categoriesDocs \in CategoryStoresOf({Str_a, Str_Ab})
    /\ productsDocs \in ProductStores
    /\ ProdViewInit

\* await getDocs(collection(db, "products"))
ProdGetProducts ==
    /\ prodPc = "getProducts"
    /\ prodSnapshot' = productsDocs
    /\ prodPc' = "getCategories"
    /\ UNCHANGED <<pageVars, rejections, custVars, storeVars, catVars, products, filteredProducts,
                   prodLoading, prodSearchQuery, deleteProductId, prodDeleting,
                   prodConfirms, prodCrashed, toasts>>

\* await getDocs(collection(db, "categories")), the join, the two setState
\* calls, finally setLoading(false), and the filter effect the new rows trigger
ProdGetCategories ==
    /\ prodPc = "getCategories"
    /\ LET data == ProductsData(prodSnapshot, categoriesDocs)
       IN  /\ products' = data
           /\ IF FilterProductsThrows(data, prodSearchQuery)
              THEN /\ prodCrashed' = TRUE
                   /\ filteredProducts' = data
              ELSE /\ prodCrashed' = FALSE
                   /\ filteredProducts' = FilterProducts(data, prodSearchQuery)
    /\ prodLoading' = FALSE
    /\ prodPc' = "done"
    /\ UNCHANGED <<pageVars, rejections, custVars, storeVars, catVars, prodSnapshot, prodSearchQuery,
                   deleteProductId, prodDeleting, prodConfirms, toasts>>

\* either read rejects: catch shows the toast, finally setLoading(false)
ProdFetchRejected ==
    /\ prodPc \in {"getProducts", "getCategories"}
    /\ toasts' = Toast("Error: Failed to load products")
    /\ prodLoading' = FALSE
    /\ prodPc' = "failed"
    /\ rejections' = Append(rejections, <<"ProductsTable.fetchProducts", "notice">>)
    /\ UNCHANGED <<pageVars, custVars, storeVars, catVars, prodSnapshot, products,
                   filteredProducts, prodSearchQuery, deleteProductId, prodDeleting,
                   prodConfirms, prodCrashed>>

\* onChange of the search input: setSearchQuery, then the filter effect
ProdSetSearchQuery(q) ==
    /\ prodPc # "idle"
    /\ ~prodCrashed
    /\ q # prodSearchQuery
    /\ prodSearchQuery' = q
    /\ IF FilterProductsThrows(products, q)
       THEN /\ prodCrashed' = TRUE
            /\ UNCHANGED filteredProducts
       ELSE /\ filteredProducts' = FilterProducts(products, q)
            /\ UNCHANGED prodCrashed
    /\ UNCHANGED <<pageVars, rejections, custVars, storeVars, catVars, prodPc, prodSnapshot, products,
                   prodLoading, deleteProductId, prodDeleting, prodConfirms, toasts>>

\* the Delete menu item of a displayed row: setDeleteProductId(product.id)
ProdAskDelete(i) ==
    /\ ~prodCrashed
    /\ ~prodLoading
    /\ i \in DOMAIN filteredProducts
    /\ deleteProductId # filteredProducts[i].id
    /\ deleteProductId' = filteredProducts[i].id
    /\ UNCHANGED <<pageVars, rejections, custVars, storeVars, catVars, prodPc, prodSnapshot, products,
                   filteredProducts, prodLoading, prodSearchQuery, prodDeleting,
                   prodConfirms, prodCrashed, toasts>>

\* onOpenChange of the dialog: setDeleteProductId(null)
ProdCloseDialog ==
    /\ ~prodCrashed
    /\ deleteProductId # Null
    /\ deleteProductId' = Null
    /\ UNCHANGED <<pageVars, rejections, custVars, storeVars, catVars, prodPc, prodSnapshot, products,
                   filteredProducts, prodLoading, prodSearchQuery, prodDeleting,
                   prodConfirms, prodCrashed, toasts>>

\* handleDeleteProduct up to its await: the call of deleteDoc
ProdConfirmDelete ==
    /\ ~prodCrashed
    /\ deleteProductId # Null
    /\ prodConfirms < MaxConfirms
    /\ prodConfirms' = prodConfirms + 1
    /\ prodDeleting' = Append(prodDeleting, deleteProductId)
    /\ UNCHANGED <<pageVars, rejections, custVars, storeVars, catVars, prodPc, prodSnapshot, products,
                   filteredProducts, prodLoading, prodSearchQuery, deleteProductId,
                   prodCrashed, toasts>>

\* ProdDeleteResolved with a store that removes, with the product, every
\* product of the same category
ProdDeleteResolvedWithCategory(k) ==
    /\ k \in DOMAIN prodDeleting
    /\ LET id == prodDeleting[k]
           rows == WithoutId(products, id)
           gone == { productsDocs[i].categoryId :
                       i \in { j \in DOMAIN productsDocs : productsDocs[j].id = id } }
       IN  /\ productsDocs' = SelectSeq(productsDocs, LAMBDA d : d.categoryId \notin gone)
           /\ products' = rows
           /\ IF prodCrashed
              THEN UNCHANGED <<filteredProducts, prodCrashed>>
              ELSE IF rows # products /\ FilterProductsThrows(rows, prodSearchQuery)
                   THEN /\ prodCrashed' = TRUE
                        /\ filteredProducts' = WithoutId(filteredProducts, id)
                   ELSE /\ UNCHANGED prodCrashed
                        /\ filteredProducts' =
                             IF rows # products
                             THEN FilterProducts(rows, prodSearchQuery)
                             ELSE WithoutId(filteredProducts, id)
    /\ prodDeleting' = SubSeq(prodDeleting, 1, k - 1) \o SubSeq(prodDeleting, k + 1, Len(prodDeleting))
    /\ toasts' = Toast("Product deleted")
    /\ deleteProductId' = Null
    /\ UNCHANGED <<pageVars, rejections, custVars, categoriesDocs, catVars, prodPc, prodSnapshot,
                   prodLoading, prodSearchQuery, prodConfirms>>

\* ProdDeleteResolved without setFilteredProducts and without the filter
\* effect
ProdDeleteResolvedKeepsFilteredRow(k) ==
    /\ k \in DOMAIN prodDeleting
    /\ productsDocs' = WithoutId(productsDocs, prodDeleting[k])
    /\ products' = WithoutId(products, prodDeleting[k])
    /\ prodDeleting' = SubSeq(prodDeleting, 1, k - 1) \o SubSeq(prodDeleting, k + 1, Len(prodDeleting))
    /\ toasts' = Toast("Product deleted")
    /\ deleteProductId' = Null
    /\ UNCHANGED <<pageVars, rejections, custVars, categoriesDocs, catVars, prodPc, prodSnapshot,
                   prodLoading, prodSearchQuery, prodConfirms, filteredProducts, prodCrashed>>

\* deleteDoc resolves: the store has removed the document; the two functional
\* setState calls, the toast, finally setDeleteProductId(null), and the filter
\* effect the new rows trigger
ProdDeleteResolved(k) ==
    /\ k \in DOMAIN prodDeleting
    /\ LET id == prodDeleting[k]
           rows == WithoutId(products, id)
       IN  /\ productsDocs' = WithoutId(productsDocs, id)
           /\ products' = rows
           /\ IF prodCrashed
              THEN UNCHANGED <<filteredProducts, prodCrashed>>
              ELSE IF rows # products /\ FilterProductsThrows(rows, prodSearchQuery)
                   THEN /\ prodCrashed' = TRUE
                        /\ filteredProducts' = WithoutId(filteredProducts, id)
                   ELSE /\ UNCHANGED prodCrashed
                        /\ filteredProducts' =
                             IF rows # products
                             THEN FilterProducts(rows, prodSearchQuery)
                             ELSE WithoutId(filteredProducts, id)
    /\ prodDeleting' = SubSeq(prodDeleting, 1, k - 1) \o SubSeq(prodDeleting, k + 1, Len(prodDeleting))
    /\ toasts' = Toast("Product deleted")
    /\ deleteProductId' = Null
    /\ UNCHANGED <<pageVars, rejections, custVars, categoriesDocs, catVars, prodPc, prodSnapshot,
                   prodLoading, prodSearchQuery, prodConfirms>>

\* deleteDoc rejects: catch shows the toast, finally setDeleteProductId(null)
ProdDeleteRejected(k) ==
    /\ k \in DOMAIN prodDeleting
    /\ prodDeleting' = SubSeq(prodDeleting, 1, k - 1) \o SubSeq(prodDeleting, k + 1, Len(prodDeleting))
    /\ toasts' = Toast("Error: Failed to delete product")
    /\ deleteProductId' = Null
    /\ rejections' = Append(rejections, <<"ProductsTable.handleDeleteProduct", "notice">>)
    /\ UNCHANGED <<pageVars, custVars, storeVars, catVars, prodPc, prodSnapshot, products,
                   filteredProducts, prodLoading, prodSearchQuery, prodConfirms,
                   prodCrashed>>

ProdNext ==
    \/ ProdGetProducts
    \/ ProdGetCategories
    \/ ProdFetchRejected
    \/ \E q \in ProductQueries : ProdSetSearchQuery(q)
    \/ \E i \in 1..MaxProducts : ProdAskDelete(i)
    \/ ProdCloseDialog
    \/ ProdConfirmDelete
    \/ \E k \in 1..MaxConfirms : ProdDeleteResolved(k)
    \/ \E k \in 1..MaxConfirms : ProdDeleteRejected(k)

\* nothing of ProductsTable is open
ProdIdle ==
    /\ prodPc = "idle"
    /\ prodSnapshot = <<>>
    /\ products = <<>>
    /\ filteredProducts = <<>>
    /\ prodLoading = TRUE
    /\ prodSearchQuery = EmptyStr
    /\ deleteProductId = Null
    /\ prodDeleting = <<>>
    /\ prodConfirms = 0
    /\ prodCrashed = FALSE

(***************************************************************************)
(* CustomerDetails and OrderDetails                                        *)
(***************************************************************************)
AddressId(i) == <<"a", DigitChar(i)>>

\* an id no document has
Str_none == <<"n", "o", "n", "e">>

\* the address documents enumerated: their userId
AddressUserIds == {Str_a, Str_Ab}

AddressStores ==
    UNION {
      { [i \in 1..n |-> [id |-> AddressId(i), userId |-> f[i]]] :
          f \in [1..n -> AddressUserIds] } : n \in 0..1 }

\* the values of Order.shippingAddressId enumerated
ShippingAddressIds == {Undefined, AddressId(1), Str_none}

\* the orders, as OrderDetails reads them
OrderDetailStores ==
    UNION {
      { [i \in 1..n |-> [id |-> OrderId(i), userId |-> Str_a,
                         totalAmount |-> Str_2_5, shippingAddressId |-> f[i]]] :
          f \in [1..n -> ShippingAddressIds] } : n \in 0..MaxOrders }

\* a snapshot for which exists() is false, and the null of a state that
\* holds a document or null
NoDoc == [id |-> Null]

\* getDoc(doc(db, collection, id)): the document, NoDoc when there is none
GetDoc(docs, id) ==
    IF \E i \in DOMAIN docs : docs[i].id = id
    THEN docs[CHOOSE i \in DOMAIN docs : docs[i].id = id]
    ELSE NoDoc

\* WhereUserId without the where clause
WhereUserIdUnfiltered(docs, userId) == docs

\* getDocs(query(collection, where("userId", "==", userId)))
WhereUserId(docs, userId) ==
    LET Keep(d) == d.userId # Undefined /\ d.userId = userId IN SelectSeq(docs, Keep)

\* CustomerDetails is not mounted
NoCustomerDetails ==
    [customerId |-> Null, pc |-> "idle", customer |-> NoDoc, addresses |-> <<>>,
     orders |-> <<>>, loading |-> TRUE, customerData |-> NoDoc, earlier |-> <<>>,
     idChanges |-> 0]

\* OrderDetails is not mounted
NoOrderDetails ==
    [orderId |-> Null, pc |-> "idle", order |-> NoDoc, address |-> NoDoc, loading |-> TRUE,
     orderData |-> NoDoc, earlier |-> <<>>, idChanges |-> 0]

DetailsIdle ==
    /\ addressesDocs = <<>>
    /\ customerDetails = NoCustomerDetails
    /\ orderDetails = NoOrderDetails

\* CustomerDetails is mounted for customerId, on a store the tables do not read
CustomerDetailsInit ==
    /\ customersDocs \in CustomerStores
    /\ ordersDocs \in OrderStores
    /\ addressesDocs \in AddressStores
    /\ \E id \in {CustId(1), CustId(2), Str_none} :
         customerDetails = [NoCustomerDetails EXCEPT !.customerId = id, !.pc = "getCustomer"]
    /\ orderDetails = NoOrderDetails
    /\ route = "/dashboard/customers/[id]"

\* await getDoc(doc(db, "customers", customerId)); when there is no document
\* the notice, router.push and the return through finally; else setCustomer
\* and the query for the addresses, which where() refuses to build for an
\* undefined userId
DetGetCustomer ==
    /\ customerDetails.pc = "getCustomer"
    /\ LET customerDoc == GetDoc(customersDocs, customerDetails.customerId)
       IN  IF customerDoc = NoDoc
           THEN /\ toasts' = Toast("Customer not found")
                /\ route' = "/dashboard/customers"
                /\ customerDetails' = [customerDetails EXCEPT !.pc = "notFound", !.loading = FALSE]
           ELSE IF customerDoc.userId = Undefined
           THEN /\ toasts' = Toast("Error: Failed to load customer details")
                /\ customerDetails' = [customerDetails EXCEPT !.pc = "failed", !.loading = FALSE,
                                                              !.customer = customerDoc,
                                                              !.customerData = customerDoc]
                /\ UNCHANGED route
           ELSE /\ customerDetails' = [customerDetails EXCEPT !.pc = "getAddresses",
                                                              !.customer = customerDoc,
                                                              !.customerData = customerDoc]
                /\ UNCHANGED <<toasts, route>>
    /\ UNCHANGED <<custVars, storeVars, catVars, prodVars, addressesDocs, orderDetails,
                   categoryForm, productForm, storeWrites, rejections>>

\* await getDocs(addressesQuery), setAddresses
DetGetAddresses ==
    /\ customerDetails.pc = "getAddresses"
    /\ customerDetails' =
         [customerDetails EXCEPT
            !.pc = "getOrders",
            !.addresses = WhereUserId(addressesDocs, customerDetails.customerData.userId)]
    /\ UNCHANGED <<custVars, storeVars, catVars, prodVars, toasts, addressesDocs,
                   orderDetails, route, categoryForm, productForm, storeWrites, rejections>>

\* await getDocs(ordersQuery), setOrders, finally setLoading(false)
DetGetOrders ==
    /\ customerDetails.pc = "getOrders"
    /\ customerDetails' =
         [customerDetails EXCEPT
            !.pc = "done",
            !.orders = WhereUserId(ordersDocs, customerDetails.customerData.userId),
            !.loading = FALSE]
    /\ UNCHANGED <<custVars, storeVars, catVars, prodVars, toasts, addressesDocs,
                   orderDetails, route, categoryForm, productForm, storeWrites, rejections>>

\* one of the three reads rejects: catch shows the toast, finally setLoading(false)
DetFetchRejected ==
    /\ customerDetails.pc \in {"getCustomer", "getAddresses", "getOrders"}
    /\ toasts' = Toast("Error: Failed to load customer details")
    /\ customerDetails' = [customerDetails EXCEPT !.pc = "failed", !.loading = FALSE]
    /\ rejections' = Append(rejections, <<"CustomerDetails.fetchCustomerDetails", "notice">>)
    /\ UNCHANGED <<custVars, storeVars, catVars, prodVars, addressesDocs, orderDetails,
                   route, categoryForm, productForm, storeWrites>>

\* what CustomerDetails renders: the spinner while loading, "Customer not
\* found" without a customer, else the customer with its addresses and orders
CustomerDetailsShown ==
    IF customerDetails.pc = "left" THEN "nothing"
    ELSE IF customerDetails.pc = "idle" \/ customerDetails.loading THEN "spinner"
    ELSE IF customerDetails.customer = NoDoc THEN "not found"
    ELSE "details"

\* OrderDetails is mounted for orderId
OrderDetailsInit ==
    /\ customersDocs = <<>>
    /\ ordersDocs \in OrderDetailStores
    /\ addressesDocs \in AddressStores
    /\ customerDetails = NoCustomerDetails
    /\ \E id \in {OrderId(1), OrderId(2), Str_none} :
         orderDetails = [NoOrderDetails EXCEPT !.orderId = id, !.pc = "getOrder"]
    /\ route = "/dashboard/orders/[id]"

\* await getDoc(doc(db, "orders", orderId)); when there is no document the
\* notice, router.push and the return through finally; else setOrder, and
\* without a shippingAddressId finally setLoading(false)
OrdGetOrder ==
    /\ orderDetails.pc = "getOrder"
    /\ LET orderDoc == GetDoc(ordersDocs, orderDetails.orderId)
       IN  IF orderDoc = NoDoc
           THEN /\ toasts' = Toast("Order not found")
                /\ route' = "/dashboard/orders"
                /\ orderDetails' = [orderDetails EXCEPT !.pc = "notFound", !.loading = FALSE]
           ELSE IF Truthy(orderDoc.shippingAddressId)
           THEN /\ orderDetails' = [orderDetails EXCEPT !.pc = "getAddress", !.order = orderDoc,
                                                        !.orderData = orderDoc]
                /\ UNCHANGED <<toasts, route>>
           ELSE /\ orderDetails' = [orderDetails EXCEPT !.pc = "done", !.order = orderDoc,
                                                        !.orderData = orderDoc,
                                                        !.loading = FALSE]
                /\ UNCHANGED <<toasts, route>>
    /\ UNCHANGED <<custVars, storeVars, catVars, prodVars, addressesDocs, customerDetails,
                   categoryForm, productForm, storeWrites, rejections>>

\* await getDoc(doc(db, "addresses", orderData.shippingAddressId)), setAddress
\* when it exists (the state keeps what it held when it does not), finally
\* setLoading(false)
OrdGetAddress ==
    /\ orderDetails.pc = "getAddress"
    /\ orderDetails' =
         [orderDetails EXCEPT
            !.pc = "done",
            !.address = IF GetDoc(addressesDocs, orderDetails.orderData.shippingAddressId) # NoDoc
                        THEN GetDoc(addressesDocs, orderDetails.orderData.shippingAddressId)
                        ELSE @,
            !.loading = FALSE]
    /\ UNCHANGED <<custVars, storeVars, catVars, prodVars, toasts, addressesDocs,
                   customerDetails, route, categoryForm, productForm, storeWrites,
                   rejections>>

\* one of the two reads rejects: catch shows the toast, finally setLoading(false)
OrdFetchRejected ==
    /\ orderDetails.pc \in {"getOrder", "getAddress"}
    /\ toasts' = Toast("Error: Failed to load order details")
    /\ orderDetails' = [orderDetails EXCEPT !.pc = "failed", !.loading = FALSE]
    /\ rejections' = Append(rejections, <<"OrderDetails.fetchOrderDetails", "notice">>)
    /\ UNCHANGED <<custVars, storeVars, catVars, prodVars, addressesDocs, customerDetails,
                   route, categoryForm, productForm, storeWrites>>

\* what OrderDetails renders
OrderDetailsShown ==
    IF orderDetails.pc = "left" THEN "nothing"
    ELSE IF orderDetails.pc = "idle" \/ orderDetails.loading THEN "spinner"
    ELSE IF orderDetails.order = NoDoc THEN "not found"
    ELSE "details"

DetailsNext ==
    \/ DetGetCustomer
    \/ DetGetAddresses
    \/ DetGetOrders
    \/ DetFetchRejected
    \/ OrdGetOrder
    \/ OrdGetAddress
    \/ OrdFetchRejected

(***************************************************************************)
(* Detail views: the id prop changes, or the view is left, while a fetch   *)
(* is in flight.  The effect has no cleanup: the earlier run of the fetch  *)
(* function goes on, with its own customerId / orderId and its own local   *)
(* customerData / orderData, and calls the same setState functions, toast  *)
(* and router.  React drops the setState calls of a view that is gone.     *)
(***************************************************************************)
WithoutIndex(seq, k) == SubSeq(seq, 1, k - 1) \o SubSeq(seq, k + 1, Len(seq))

\* the positions at which a run of fetchCustomerDetails awaits the store
CustomerFetchAwaits == {"getCustomer", "getAddresses", "getOrders"}

\* the positions at which a run of fetchOrderDetails awaits the store
OrderFetchAwaits == {"getOrder", "getAddress"}

\* CustomerDetails is on the page
CustomerDetailsMounted == customerDetails.pc \notin {"idle", "left", "notFound"}

\* OrderDetails is on the page
OrderDetailsMounted == orderDetails.pc \notin {"idle", "left", "notFound"}

\* the runs of fetchCustomerDetails once the current one is no longer the
\* one the view waits for
CustomerFetchesSetAside(cd) ==
    IF cd.pc \in CustomerFetchAwaits
    THEN Append(cd.earlier, [customerId |-> cd.customerId, pc |-> cd.pc,
                             customerData |-> cd.customerData])
    ELSE cd.earlier

OrderFetchesSetAside(od) ==
    IF od.pc \in OrderFetchAwaits
    THEN Append(od.earlier, [orderId |-> od.orderId, pc |-> od.pc,
                             orderData |-> od.orderData])
    ELSE od.earlier

\* DetCustomerIdChanges with a cleanup that abandons the run in flight
DetCustomerIdChangesCancelling(id) ==
    /\ CustomerDetailsMounted
    /\ id # customerDetails.customerId
    /\ customerDetails.idChanges < MaxIdChanges
    /\ customerDetails' = [customerDetails EXCEPT
                             !.customerId = id, !.pc = "getCustomer",
                             !.idChanges = @ + 1]
    /\ UNCHANGED <<custVars, storeVars, catVars, prodVars, toasts, addressesDocs,
                   orderDetails, route, categoryForm, productForm, storeWrites, rejections>>

\* the page is shown for another customerId: the effect runs again and calls
\* fetchCustomerDetails; neither the state nor loading is reset
DetCustomerIdChanges(id) ==
    /\ CustomerDetailsMounted
    /\ id # customerDetails.customerId
    /\ customerDetails.idChanges < MaxIdChanges
    /\ customerDetails' = [customerDetails EXCEPT
                             !.customerId = id, !.pc = "getCustomer",
                             !.earlier = CustomerFetchesSetAside(customerDetails),
                             !.idChanges = @ + 1]
    /\ UNCHANGED <<custVars, storeVars, catVars, prodVars, toasts, addressesDocs,
                   orderDetails, route, categoryForm, productForm, storeWrites, rejections>>

\* the user goes back to the list while the view is shown
DetLeave ==
    /\ CustomerDetailsMounted
    /\ customerDetails' = [customerDetails EXCEPT
                             !.pc = "left",
                             !.earlier = CustomerFetchesSetAside(customerDetails)]
    /\ route' = "/dashboard/customers"
    /\ UNCHANGED <<custVars, storeVars, catVars, prodVars, toasts, addressesDocs,
                   orderDetails, categoryForm, productForm, storeWrites, rejections>>

\* getDoc of an earlier run is answered: the not-found notice and router.push,
\* which takes the view off the page, or setCustomer and the next query
DetEarlierGetCustomer(k) ==
    /\ k \in DOMAIN customerDetails.earlier
    /\ customerDetails.earlier[k].pc = "getCustomer"
    /\ LET customerDoc == GetDoc(customersDocs, customerDetails.earlier[k].customerId)
           mounted == CustomerDetailsMounted
       IN  IF customerDoc = NoDoc
           THEN /\ toasts' = Toast("Customer not found")
                /\ route' = "/dashboard/customers"
                /\ customerDetails' =
                     [customerDetails EXCEPT
                        !.pc = IF mounted THEN "left" ELSE @,
                        !.loading = IF mounted THEN FALSE ELSE @,
                        !.earlier = IF mounted
                                    THEN CustomerFetchesSetAside(
                                           [customerDetails EXCEPT !.earlier = WithoutIndex(@, k)])
                                    ELSE WithoutIndex(@, k)]
           ELSE IF customerDoc.userId = Undefined
           THEN /\ toasts' = Toast("Error: Failed to load customer details")
                /\ customerDetails' =
                     [customerDetails EXCEPT
                        !.customer = IF mounted THEN customerDoc ELSE @,
                        !.loading = IF mounted THEN FALSE ELSE @,
                        !.earlier = WithoutIndex(@, k)]
                /\ UNCHANGED route
           ELSE /\ customerDetails' =
                     [customerDetails EXCEPT
                        !.customer = IF mounted THEN customerDoc ELSE @,
                        !.earlier[k].pc = "getAddresses",
                        !.earlier[k].customerData = customerDoc]
                /\ UNCHANGED <<toasts, route>>
    /\ UNCHANGED <<custVars, storeVars, catVars, prodVars, addressesDocs, orderDetails,
                   categoryForm, productForm, storeWrites, rejections>>

\* the addresses query of an earlier run is answered: setAddresses
DetEarlierGetAddresses(k) ==
    /\ k \in DOMAIN customerDetails.earlier
    /\ customerDetails.earlier[k].pc = "getAddresses"
    /\ customerDetails' =
         [customerDetails EXCEPT
            !.addresses = IF CustomerDetailsMounted
                          THEN WhereUserId(addressesDocs,
                                           customerDetails.earlier[k].customerData.userId)
                          ELSE @,
            !.earlier[k].pc = "getOrders"]
    /\ UNCHANGED <<custVars, storeVars, catVars, prodVars, toasts, addressesDocs,
                   orderDetails, route, categoryForm, productForm, storeWrites, rejections>>

\* the orders query of an earlier run is answered: setOrders, finally
\* setLoading(false)
DetEarlierGetOrders(k) ==
    /\ k \in DOMAIN customerDetails.earlier
    /\ customerDetails.earlier[k].pc = "getOrders"
    /\ customerDetails' =
         [customerDetails EXCEPT
            !.orders = IF CustomerDetailsMounted
                       THEN WhereUserId(ordersDocs,
                                        customerDetails.earlier[k].customerData.userId)
                       ELSE @,
            !.loading = IF CustomerDetailsMounted THEN FALSE ELSE @,
            !.earlier = WithoutIndex(@, k)]
    /\ UNCHANGED <<custVars, storeVars, catVars, prodVars, toasts, addressesDocs,
                   orderDetails, route, categoryForm, productForm, storeWrites, rejections>>

\* a read of an earlier run rejects: catch shows the toast, finally
\* setLoading(false)
DetEarlierRejected(k) ==
    /\ k \in DOMAIN customerDetails.earlier
    /\ toasts' = Toast("Error: Failed to load customer details")
    /\ customerDetails' =
         [customerDetails EXCEPT
            !.loading = IF CustomerDetailsMounted THEN FALSE ELSE @,
            !.earlier = WithoutIndex(@, k)]
    /\ rejections' = Append(rejections, <<"CustomerDetails.fetchCustomerDetails", "notice">>)
    /\ UNCHANGED <<custVars, storeVars, catVars, prodVars, addressesDocs, orderDetails,
                   route, categoryForm, productForm, storeWrites>>

\* the page is shown for another orderId: the effect runs again
OrdOrderIdChanges(id) ==
    /\ OrderDetailsMounted
    /\ id # orderDetails.orderId
    /\ orderDetails.idChanges < MaxIdChanges
    /\ orderDetails' = [orderDetails EXCEPT
                          !.orderId = id, !.pc = "getOrder",
                          !.earlier = OrderFetchesSetAside(orderDetails),
                          !.idChanges = @ + 1]
    /\ UNCHANGED <<custVars, storeVars, catVars, prodVars, toasts, addressesDocs,
                   customerDetails, route, categoryForm, productForm, storeWrites, rejections>>

\* the user goes back to the list while the view is shown
OrdLeave ==
    /\ OrderDetailsMounted
    /\ orderDetails' = [orderDetails EXCEPT
                          !.pc = "left",
                          !.earlier = OrderFetchesSetAside(orderDetails)]
    /\ route' = "/dashboard/orders"
    /\ UNCHANGED <<custVars, storeVars, catVars, prodVars, toasts, addressesDocs,
                   customerDetails, categoryForm, productForm, storeWrites, rejections>>

\* getDoc of an earlier run is answered
OrdEarlierGetOrder(k) ==
    /\ k \in DOMAIN orderDetails.earlier
    /\ orderDetails.earlier[k].pc = "getOrder"
    /\ LET orderDoc == GetDoc(ordersDocs, orderDetails.earlier[k].orderId)
           mounted == OrderDetailsMounted
       IN  IF orderDoc = NoDoc
           THEN /\ toasts' = Toast("Order not found")
                /\ route' = "/dashboard/orders"
                /\ orderDetails' =
                     [orderDetails EXCEPT
                        !.pc = IF mounted THEN "left" ELSE @,
                        !.loading = IF mounted THEN FALSE ELSE @,
                        !.earlier = IF mounted
                                    THEN OrderFetchesSetAside(
                                           [orderDetails EXCEPT !.earlier = WithoutIndex(@, k)])
                                    ELSE WithoutIndex(@, k)]
           ELSE IF Truthy(orderDoc.shippingAddressId)
           THEN /\ orderDetails' =
                     [orderDetails EXCEPT
                        !.order = IF mounted THEN orderDoc ELSE @,
                        !.earlier[k].pc = "getAddress",
                        !.earlier[k].orderData = orderDoc]
                /\ UNCHANGED <<toasts, route>>
           ELSE /\ orderDetails' =
                     [orderDetails EXCEPT
                        !.order = IF mounted THEN orderDoc ELSE @,
                        !.loading = IF mounted THEN FALSE ELSE @,
                        !.earlier = WithoutIndex(@, k)]
                /\ UNCHANGED <<toasts, route>>
    /\ UNCHANGED <<custVars, storeVars, catVars, prodVars, addressesDocs, customerDetails,
                   categoryForm, productForm, storeWrites, rejections>>

\* the address read of an earlier run is answered
OrdEarlierGetAddress(k) ==
    /\ k \in DOMAIN orderDetails.earlier
    /\ orderDetails.earlier[k].pc = "getAddress"
    /\ LET addressDoc == GetDoc(addressesDocs,
                                orderDetails.earlier[k].orderData.shippingAddressId)
       IN  orderDetails' =
             [orderDetails EXCEPT
                !.address = IF OrderDetailsMounted /\ addressDoc # NoDoc
                            THEN addressDoc ELSE @,
                !.loading = IF OrderDetailsMounted THEN FALSE ELSE @,
                !.earlier = WithoutIndex(@, k)]
    /\ UNCHANGED <<custVars, storeVars, catVars, prodVars, toasts, addressesDocs,
                   customerDetails, route, categoryForm, productForm, storeWrites,
                   rejections>>

\* a read of an earlier run rejects
OrdEarlierRejected(k) ==
    /\ k \in DOMAIN orderDetails.earlier
    /\ toasts' = Toast("Error: Failed to load order details")
    /\ orderDetails' =
         [orderDetails EXCEPT
            !.loading = IF OrderDetailsMounted THEN FALSE ELSE @,
            !.earlier = WithoutIndex(@, k)]
    /\ rejections' = Append(rejections, <<"OrderDetails.fetchOrderDetails", "notice">>)
    /\ UNCHANGED <<custVars, storeVars, catVars, prodVars, addressesDocs, customerDetails,
                   route, categoryForm, productForm, storeWrites>>

\* the ids the pages are opened for
CustomerDetailsIds == {CustId(1), CustId(2), Str_none}

OrderDetailsIds == {OrderId(1), OrderId(2), Str_none}

\* the detail views with the id changes, the leaving and the earlier runs
DetailsNavNext ==
    \/ DetailsNext
    \/ \E id \in CustomerDetailsIds : DetCustomerIdChanges(id)
    \/ DetLeave
    \/ \E k \in 1..(MaxIdChanges + 1) :
         \/ DetEarlierGetCustomer(k)
         \/ DetEarlierGetAddresses(k)
         \/ DetEarlierGetOrders(k)
         \/ DetEarlierRejected(k)
         \/ OrdEarlierGetOrder(k)
         \/ OrdEarlierGetAddress(k)
         \/ OrdEarlierRejected(k)
    \/ \E id \in OrderDetailsIds : OrdOrderIdChanges(id)
    \/ OrdLeave

(***************************************************************************)
(* CategoryForm                                                            *)
(***************************************************************************)
\* the two browser sessions in which a form can be open
Sessions == {1, 2}

tableVars == <<custVars, catVars, prodVars, toasts>>

detailVars == <<addressesDocs, customerDetails, orderDetails, route>>

\* the names typed into the name field
FormNames == {Str_a, Str_B}

\* uuidv4(): an id no document has yet, one per call
Uuid(s, n) == <<"u", DigitChar(s), DigitChar(n)>>

\* CategoryForm is not mounted in a session
NoCategoryForm ==
    [categoryId |-> Undefined, pc |-> "idle", isEdit |-> FALSE, loading |-> FALSE,
     name |-> EmptyStr, route |-> "", toasts |-> <<>>, submits |-> 0]

\* CategoryForm after its mount effect has run up to the await: without a
\* categoryId the empty form, with one the spinner and getDoc in flight
CategoryFormMounted(categoryId) ==
    IF Truthy(categoryId)
    THEN [NoCategoryForm EXCEPT !.categoryId = categoryId, !.pc = "getCategory",
                                !.isEdit = TRUE, !.loading = TRUE,
                                !.route = "/dashboard/categories/[id]/edit"]
    ELSE [NoCategoryForm EXCEPT !.categoryId = categoryId, !.pc = "form",
                                !.route = "/dashboard/categories/new"]

\* the props with which the form is opened: none, a category, a missing one
CategoryFormProps == {Undefined, CatId(1), Str_none}

CategoryFormInit ==
    /\ categoriesDocs \in CategoryStoresOf({Undefined, Str_Ab})
    /\ productsDocs = <<>>
    /\ categoryForm \in [Sessions -> {NoCategoryForm} \cup
                            { CategoryFormMounted(id) : id \in CategoryFormProps }]
    /\ \E s \in Sessions : categoryForm[s].pc # "idle"
    /\ storeWrites = <<>>

\* what a session's CategoryForm renders: the spinner for loading && isEdit
CategoryFormShown(s) ==
    IF categoryForm[s].pc \in {"idle", "left"} THEN "nothing"
    ELSE IF categoryForm[s].loading /\ categoryForm[s].isEdit THEN "spinner"
    ELSE "form"

\* CfGetCategory without the router.push of the not-found branch
CfGetCategoryNoPush(s) ==
    /\ categoryForm[s].pc = "getCategory"
    /\ LET categoryDoc == GetDoc(categoriesDocs, categoryForm[s].categoryId)
       IN  categoryForm' = [categoryForm EXCEPT ![s] =
             IF categoryDoc # NoDoc
             THEN [@ EXCEPT !.pc = "form", !.loading = FALSE,
                            !.name = IF Truthy(categoryDoc.name)
                                     THEN categoryDoc.name ELSE EmptyStr]
             ELSE [@ EXCEPT !.pc = "form", !.loading = FALSE,
                            !.toasts = Append(@, "Category not found")]]
    /\ UNCHANGED <<tableVars, detailVars, storeVars, productForm, storeWrites, rejections>>

\* fetchCategory after await getDoc: setFormData with name || "", or the
\* notice and router.push when the document does not exist; finally
\* setLoading(false)
CfGetCategory(s) ==
    /\ categoryForm[s].pc = "getCategory"
    /\ LET categoryDoc == GetDoc(categoriesDocs, categoryForm[s].categoryId)
       IN  categoryForm' = [categoryForm EXCEPT ![s] =
             IF categoryDoc # NoDoc
             THEN [@ EXCEPT !.pc = "form", !.loading = FALSE,
                            !.name = IF Truthy(categoryDoc.name)
                                     THEN categoryDoc.name ELSE EmptyStr]
             ELSE [@ EXCEPT !.pc = "left", !.loading = FALSE,
                            !.toasts = Append(@, "Category not found"),
                            !.route = "/dashboard/categories"]]
    /\ UNCHANGED <<tableVars, detailVars, storeVars, productForm, storeWrites, rejections>>

\* getDoc rejects: catch shows the toast, finally setLoading(false); the form
\* is then shown in edit mode with an empty name
CfFetchRejected(s) ==
    /\ categoryForm[s].pc = "getCategory"
    /\ categoryForm' = [categoryForm EXCEPT ![s] =
         [@ EXCEPT !.pc = "form", !.loading = FALSE,
                   !.toasts = Append(@, "Error: Failed to load category data")]]
    /\ rejections' = Append(rejections, <<"CategoryForm.fetchCategory", "notice">>)
    /\ UNCHANGED <<tableVars, detailVars, storeVars, productForm, storeWrites>>

\* handleInputChange on the name field
CfInputChange(s, v) ==
    /\ CategoryFormShown(s) = "form"
    /\ categoryForm[s].pc = "form"
    /\ v # categoryForm[s].name
    /\ categoryForm' = [categoryForm EXCEPT ![s].name = v]
    /\ UNCHANGED <<tableVars, detailVars, storeVars, productForm, storeWrites, rejections>>

\* the Cancel button: router.push
CfCancel(s) ==
    /\ CategoryFormShown(s) = "form"
    /\ categoryForm[s].pc = "form"
    /\ categoryForm' = [categoryForm EXCEPT ![s] =
         [@ EXCEPT !.pc = "left", !.route = "/dashboard/categories"]]
    /\ UNCHANGED <<tableVars, detailVars, storeVars, productForm, storeWrites, rejections>>

\* handleSubmit up to its await: the submit button is enabled while loading
\* is false and the required name is filled in; setLoading(true) and the call
\* of updateDoc or of setDoc under a new uuid
CfSubmit(s) ==
    /\ CategoryFormShown(s) = "form"
    /\ categoryForm[s].pc = "form"
    /\ ~categoryForm[s].loading
    /\ categoryForm[s].name # EmptyStr
    /\ categoryForm[s].submits < MaxSubmits
    /\ categoryForm' = [categoryForm EXCEPT ![s] =
         [@ EXCEPT !.pc = "write", !.loading = TRUE, !.submits = @ + 1]]
    /\ UNCHANGED <<tableVars, detailVars, storeVars, productForm, storeWrites, rejections>>

\* the document the write of session s is addressed to
CfWriteId(s) ==
    IF categoryForm[s].isEdit /\ Truthy(categoryForm[s].categoryId)
    THEN categoryForm[s].categoryId
    ELSE Uuid(s, categoryForm[s].submits)

\* ApplyWrite keeping the value of a field the stored document already has
ApplyWriteKeepsStoredFields(docs, id, data) ==
    IF \E i \in DOMAIN docs : docs[i].id = id
    THEN [i \in DOMAIN docs |->
            IF docs[i].id = id
            THEN [f \in DOMAIN docs[i] \cup DOMAIN data |->
                    IF f \in DOMAIN docs[i] THEN docs[i][f] ELSE data[f]]
            ELSE docs[i]]
    ELSE Append(docs, [f \in {"id"} \cup DOMAIN data |->
                         IF f = "id" THEN id ELSE data[f]])

\* updateDoc(ref, data) and setDoc(ref, data) on a collection of documents:
\* the fields of data replace those of the document, setDoc creates it
ApplyWrite(docs, id, data) ==
    IF \E i \in DOMAIN docs : docs[i].id = id
    THEN [i \in DOMAIN docs |->
            IF docs[i].id = id
            THEN [f \in DOMAIN docs[i] \cup DOMAIN data |->
                    IF f \in DOMAIN data THEN data[f] ELSE docs[i][f]]
            ELSE docs[i]]
    ELSE Append(docs, [f \in {"id"} \cup DOMAIN data |->
                         IF f = "id" THEN id ELSE data[f]])

\* the write of session s reaches the store, which applies it; updateDoc
\* needs the document to exist
CfStoreApplies(s) ==
    /\ categoryForm[s].pc = "write"
    /\ LET id == CfWriteId(s)
           isUpdate == categoryForm[s].isEdit /\ Truthy(categoryForm[s].categoryId)
           data == [name |-> categoryForm[s].name]
       IN  /\ isUpdate => GetDoc(categoriesDocs, id) # NoDoc
           /\ categoriesDocs' = ApplyWrite(categoriesDocs, id, data)
           /\ storeWrites' = Append(storeWrites,
                [by |-> s, form |-> "CategoryForm",
                 op |-> IF isUpdate THEN "updateDoc" ELSE "setDoc",
                 id |-> id, data |-> data])
    /\ categoryForm' = [categoryForm EXCEPT ![s].pc = "applied"]
    /\ UNCHANGED <<tableVars, detailVars, productsDocs, productForm, rejections>>

\* CfWriteResolved without the await: the success toast and router.push as
\* soon as the write has been issued
CfWriteResolvedBeforeStore(s) ==
    /\ categoryForm[s].pc = "write"
    /\ categoryForm' = [categoryForm EXCEPT ![s] =
         [@ EXCEPT !.pc = "left", !.loading = FALSE,
                   !.toasts = Append(@, IF categoryForm[s].isEdit
                                           /\ Truthy(categoryForm[s].categoryId)
                                        THEN "Category updated" ELSE "Category created"),
                   !.route = "/dashboard/categories"]]
    /\ UNCHANGED <<tableVars, detailVars, storeVars, productForm, storeWrites, rejections>>

\* the await of the write resolves: the success toast, router.push, finally
\* setLoading(false)
CfWriteResolved(s) ==
    /\ categoryForm[s].pc = "applied"
    /\ categoryForm' = [categoryForm EXCEPT ![s] =
         [@ EXCEPT !.pc = "left", !.loading = FALSE,
                   !.toasts = Append(@, IF categoryForm[s].isEdit
                                           /\ Truthy(categoryForm[s].categoryId)
                                        THEN "Category updated" ELSE "Category created"),
                   !.route = "/dashboard/categories"]]
    /\ UNCHANGED <<tableVars, detailVars, storeVars, productForm, storeWrites, rejections>>

\* the write rejects: catch shows the toast, finally setLoading(false)
CfWriteRejected(s) ==
    /\ categoryForm[s].pc = "write"
    /\ categoryForm' = [categoryForm EXCEPT ![s] =
         [@ EXCEPT !.pc = "form", !.loading = FALSE,
                   !.toasts = Append(@, "Error: Failed to save category")]]
    /\ rejections' = Append(rejections, <<"CategoryForm.handleSubmit", "notice">>)
    /\ UNCHANGED <<tableVars, detailVars, storeVars, productForm, storeWrites>>

CategoryFormNext ==
    \E s \in Sessions :
      \/ CfGetCategory(s)
      \/ CfFetchRejected(s)
      \/ \E v \in FormNames : CfInputChange(s, v)
      \/ CfCancel(s)
      \/ CfSubmit(s)
      \/ CfStoreApplies(s)
      \/ CfWriteResolved(s)
      \/ CfWriteRejected(s)

(***************************************************************************)
(* ProductForm                                                             *)
(***************************************************************************)
\* collection "tags", which nothing here writes
TagsDocs == <<[id |-> <<"t", "1">>, name |-> Str_a]>>

\* the documents of collection "subcategories" with a categoryId, which
\* nothing here writes: one per category
SubcategoriesOf(categoryId) ==
    <<[id |-> <<"s", categoryId[2]>>, name |-> Str_a]>>

\* the URL uploadToS3 returns
Str_url == <<"s", "3">>

\* docs.map((d) => ({ id: d.id, name: d.data().name }))
IdAndName(docs) == [i \in DOMAIN docs |-> [id |-> docs[i].id, name |-> docs[i].name]]

\* value || ""
OrEmpty(v) == IF Truthy(v) THEN v ELSE EmptyStr

\* the field of a document, undefined when the document has none
Field(d, f) == IF f \in DOMAIN d THEN d[f] ELSE Undefined

EmptyFormData ==
    [name |-> EmptyStr, description |-> EmptyStr, image |-> EmptyStr,
     categoryId |-> EmptyStr, subcategoryId |-> EmptyStr]

\* ProductForm is not mounted in a session
NoProductForm ==
    [productId |-> Undefined, pc |-> "idle", isEdit |-> FALSE, loading |-> FALSE,
     formData |-> EmptyFormData, lookups |-> "idle", categories |-> <<>>,
     tags |-> <<>>, subcategories |-> <<>>, subQueries |-> <<>>, queries |-> 0,
     imageFile |-> FALSE, imageUploading |-> FALSE,
     route |-> "", toasts |-> <<>>, submits |-> 0]

\* ProductForm after its two mount effects have run up to their awaits: the
\* lookup reads are in flight, and with a productId getDoc too
ProductFormMounted(productId) ==
    IF Truthy(productId)
    THEN [NoProductForm EXCEPT !.productId = productId, !.pc = "getProduct",
                               !.isEdit = TRUE, !.loading = TRUE, !.lookups = "pending",
                               !.route = "/dashboard/products/[id]/edit"]
    ELSE [NoProductForm EXCEPT !.productId = productId, !.pc = "form",
                               !.lookups = "pending", !.route = "/dashboard/products/new"]

ProductFormProps == {Undefined, ProdId(1), Str_none}

\* the store ProductForm is opened on
ProductFormStores ==
    /\ categoriesDocs \in CategoryStoresOf({Str_a})
    /\ productsDocs \in ProductStoresOf({Undefined, CatId(1)}, {Str_Ab}, {Str_a})

\* what a session's ProductForm renders: the spinner for loading && isEdit
ProductFormShown(s) ==
    IF productForm[s].pc \in {"idle", "left"} THEN "nothing"
    ELSE IF productForm[s].loading /\ productForm[s].isEdit THEN "spinner"
    ELSE "form"

\* the state of a form that the router has taken away: its toasts stay
PfLeft(f, title) ==
    [f EXCEPT !.pc = "left", !.loading = FALSE, !.toasts = Append(@, title),
              !.route = "/dashboard/products"]

\* loadLookups after await Promise.all: setCategories, setTags
PfLookupsResolved(s) ==
    /\ productForm[s].lookups = "pending"
    /\ productForm' = [productForm EXCEPT ![s] =
         [@ EXCEPT !.lookups = "done", !.categories = IdAndName(categoriesDocs),
                   !.tags = IdAndName(TagsDocs)]]
    /\ UNCHANGED <<tableVars, detailVars, storeVars, categoryForm, storeWrites, rejections>>

\* one of the two lookup reads rejects: loadLookups() has no catch, and the
\* effect drops the promise it returns
PfLookupsRejected(s) ==
    /\ productForm[s].lookups = "pending"
    /\ productForm' = [productForm EXCEPT ![s].lookups = "rejected"]
    /\ rejections' = Append(rejections, <<"ProductForm.loadLookups", "unhandled">>)
    /\ UNCHANGED <<tableVars, detailVars, storeVars, categoryForm, storeWrites>>

\* loadProduct after await getDoc: without a document the throw, which catch
\* turns into the toast and router.push; else setFormData and, for a product
\* with a categoryId, the call of fetchSubcategories; finally setLoading(false)
PfGetProduct(s) ==
    /\ productForm[s].pc = "getProduct"
    /\ LET snap == GetDoc(productsDocs, productForm[s].productId)
           data == [name |-> OrEmpty(Field(snap, "name")),
                    description |-> OrEmpty(Field(snap, "description")),
                    image |-> OrEmpty(Field(snap, "image")),
                    categoryId |-> OrEmpty(Field(snap, "categoryId")),
                    subcategoryId |-> OrEmpty(Field(snap, "subcategoryId"))]
       IN  productForm' = [productForm EXCEPT ![s] =
             IF snap = NoDoc THEN PfLeft(@, "Error: Failed to load product")
             ELSE IF Truthy(Field(snap, "categoryId"))
             THEN [@ EXCEPT !.pc = "getSubcategories", !.formData = data]
             ELSE [@ EXCEPT !.pc = "form", !.formData = data, !.loading = FALSE]]
    /\ UNCHANGED <<tableVars, detailVars, storeVars, categoryForm, storeWrites, rejections>>

\* loadProduct after await fetchSubcategories(data.categoryId)
PfGetSubcategories(s) ==
    /\ productForm[s].pc = "getSubcategories"
    /\ productForm' = [productForm EXCEPT ![s] =
         [@ EXCEPT !.pc = "form", !.loading = FALSE,
                   !.subcategories = IdAndName(SubcategoriesOf(productForm[s].formData.categoryId))]]
    /\ UNCHANGED <<tableVars, detailVars, storeVars, categoryForm, storeWrites, rejections>>

\* getDoc or the subcategory query of loadProduct rejects: catch shows the
\* toast and calls router.push, finally setLoading(false)
PfFetchRejected(s) ==
    /\ productForm[s].pc \in {"getProduct", "getSubcategories"}
    /\ productForm' = [productForm EXCEPT ![s] = PfLeft(@, "Error: Failed to load product")]
    /\ rejections' = Append(rejections, <<"ProductForm.loadProduct", "notice">>)
    /\ UNCHANGED <<tableVars, detailVars, storeVars, categoryForm, storeWrites>>

\* handleInputChange on the name field
PfInputChange(s, v) ==
    /\ ProductFormShown(s) = "form"
    /\ productForm[s].pc = "form"
    /\ v # productForm[s].formData.name
    /\ productForm' = [productForm EXCEPT ![s].formData.name = v]
    /\ UNCHANGED <<tableVars, detailVars, storeVars, categoryForm, storeWrites, rejections>>

\* handleCategoryChange up to its await: a category of the select is chosen,
\* setFormData, and fetchSubcategories issues its query
PfCategoryChange(s, i) ==
    /\ ProductFormShown(s) = "form"
    /\ productForm[s].pc = "form"
    /\ i \in DOMAIN productForm[s].categories
    /\ productForm[s].categories[i].id # productForm[s].formData.categoryId
    /\ productForm[s].queries < MaxQueries
    /\ productForm' = [productForm EXCEPT ![s] =
         [@ EXCEPT !.formData.categoryId = productForm[s].categories[i].id,
                   !.formData.subcategoryId = EmptyStr,
                   !.subQueries = Append(@, productForm[s].categories[i].id),
                   !.queries = @ + 1]]
    /\ UNCHANGED <<tableVars, detailVars, storeVars, categoryForm, storeWrites, rejections>>

\* a query of handleCategoryChange resolves: setSubcategories
PfSubQueryResolved(s, k) ==
    /\ k \in DOMAIN productForm[s].subQueries
    /\ productForm' = [productForm EXCEPT ![s] =
         [@ EXCEPT !.subcategories = IdAndName(SubcategoriesOf(productForm[s].subQueries[k])),
                   !.subQueries = SubSeq(@, 1, k - 1) \o SubSeq(@, k + 1, Len(@))]]
    /\ UNCHANGED <<tableVars, detailVars, storeVars, categoryForm, storeWrites, rejections>>

\* a query of handleCategoryChange rejects: the handler has no catch
PfSubQueryRejected(s, k) ==
    /\ k \in DOMAIN productForm[s].subQueries
    /\ productForm' = [productForm EXCEPT ![s].subQueries =
                         SubSeq(@, 1, k - 1) \o SubSeq(@, k + 1, Len(@))]
    /\ rejections' = Append(rejections, <<"ProductForm.handleCategoryChange", "unhandled">>)
    /\ UNCHANGED <<tableVars, detailVars, storeVars, categoryForm, storeWrites>>

\* handleImageChange: a file is picked; the button is disabled while
\* imageUploading
PfImageChange(s) ==
    /\ ProductFormShown(s) = "form"
    /\ productForm[s].pc = "form"
    /\ ~productForm[s].imageUploading
    /\ ~productForm[s].imageFile
    /\ productForm' = [productForm EXCEPT ![s].imageFile = TRUE]
    /\ UNCHANGED <<tableVars, detailVars, storeVars, categoryForm, storeWrites, rejections>>

\* the Cancel button: router.push
PfCancel(s) ==
    /\ ProductFormShown(s) = "form"
    /\ productForm[s].pc = "form"
    /\ productForm' = [productForm EXCEPT ![s] =
         [@ EXCEPT !.pc = "left", !.route = "/dashboard/products"]]
    /\ UNCHANGED <<tableVars, detailVars, storeVars, categoryForm, storeWrites, rejections>>

\* handleSubmit up to its first await: the submit button is enabled while
\* neither loading nor imageUploading and the required name is filled in;
\* setLoading(true), then with an imageFile setImageUploading(true) and the
\* call of uploadToS3, without one the call of updateDoc or setDoc
PfSubmit(s) ==
    /\ ProductFormShown(s) = "form"
    /\ productForm[s].pc = "form"
    /\ ~productForm[s].loading
    /\ ~productForm[s].imageUploading
    /\ productForm[s].formData.name # EmptyStr
    /\ productForm[s].submits < MaxSubmits
    /\ productForm' = [productForm EXCEPT ![s] =
         [@ EXCEPT !.pc = IF productForm[s].imageFile THEN "upload" ELSE "write",
                   !.loading = TRUE, !.submits = @ + 1,
                   !.imageUploading = productForm[s].imageFile]]
    /\ UNCHANGED <<tableVars, detailVars, storeVars, categoryForm, storeWrites, rejections>>

\* uploadToS3 resolves: setImageUploading(false), and the call of updateDoc or
\* setDoc with the URL as the image of the payload
PfUploadResolved(s) ==
    /\ productForm[s].pc = "upload"
    /\ productForm' = [productForm EXCEPT ![s] =
         [@ EXCEPT !.pc = "write", !.imageUploading = FALSE]]
    /\ UNCHANGED <<tableVars, detailVars, storeVars, categoryForm, storeWrites, rejections>>

\* uploadToS3 rejects: catch shows the toast, finally setLoading(false);
\* setImageUploading(false) is passed over
PfUploadRejected(s) ==
    /\ productForm[s].pc = "upload"
    /\ productForm' = [productForm EXCEPT ![s] =
         [@ EXCEPT !.pc = "form", !.loading = FALSE,
                   !.toasts = Append(@, "Error: Failed to save product")]]
    /\ rejections' = Append(rejections, <<"ProductForm.handleSubmit uploadToS3", "notice">>)
    /\ UNCHANGED <<tableVars, detailVars, storeVars, categoryForm, storeWrites>>

\* the document the write of session s is addressed to
PfWriteId(s) ==
    IF productForm[s].isEdit /\ Truthy(productForm[s].productId)
    THEN productForm[s].productId
    ELSE Uuid(s, productForm[s].submits)

\* payload: { ...formData, image: imageUrl }
PfPayload(s) ==
    [productForm[s].formData EXCEPT
       !.image = IF productForm[s].imageFile THEN Str_url ELSE @]

\* the write of session s reaches the store, which applies it; updateDoc
\* needs the document to exist
PfStoreApplies(s) ==
    /\ productForm[s].pc = "write"
    /\ LET id == PfWriteId(s)
           isUpdate == productForm[s].isEdit /\ Truthy(productForm[s].productId)
       IN  /\ isUpdate => GetDoc(productsDocs, id) # NoDoc
           /\ productsDocs' = ApplyWrite(productsDocs, id, PfPayload(s))
           /\ storeWrites' = Append(storeWrites,
                [by |-> s, form |-> "ProductForm",
                 op |-> IF isUpdate THEN "updateDoc" ELSE "setDoc",
                 id |-> id, data |-> PfPayload(s)])
    /\ productForm' = [productForm EXCEPT ![s].pc = "applied"]
    /\ UNCHANGED <<tableVars, detailVars, categoriesDocs, categoryForm, rejections>>

\* the await of the write resolves: the success toast, router.push, finally
\* setLoading(false)
PfWriteResolved(s) ==
    /\ productForm[s].pc = "applied"
    /\ productForm' = [productForm EXCEPT ![s] =
         PfLeft(@, IF productForm[s].isEdit /\ Truthy(productForm[s].productId)
                   THEN "Updated" ELSE "Created")]
    /\ UNCHANGED <<tableVars, detailVars, storeVars, categoryForm, storeWrites, rejections>>

\* the write rejects: catch shows the toast, finally setLoading(false)
PfWriteRejected(s) ==
    /\ productForm[s].pc = "write"
    /\ productForm' = [productForm EXCEPT ![s] =
         [@ EXCEPT !.pc = "form", !.loading = FALSE,
                   !.toasts = Append(@, "Error: Failed to save product")]]
    /\ rejections' = Append(rejections, <<"ProductForm.handleSubmit", "notice">>)
    /\ UNCHANGED <<tableVars, detailVars, storeVars, categoryForm, storeWrites>>

ProductFormNext ==
    \E s \in Sessions :
      \/ PfLookupsResolved(s)
      \/ PfLookupsRejected(s)
      \/ PfGetProduct(s)
      \/ PfGetSubcategories(s)
      \/ PfFetchRejected(s)
      \/ \E v \in FormNames : PfInputChange(s, v)
      \/ \E i \in 1..MaxCategories : PfCategoryChange(s, i)
      \/ \E k \in 1..MaxQueries : PfSubQueryResolved(s, k)
      \/ \E k \in 1..MaxQueries : PfSubQueryRejected(s, k)
      \/ PfImageChange(s)
      \/ PfCancel(s)
      \/ PfSubmit(s)
      \/ PfUploadResolved(s)
      \/ PfUploadRejected(s)
      \/ PfStoreApplies(s)
      \/ PfWriteResolved(s)
      \/ PfWriteRejected(s)

\* no form is open
FormsIdle ==
    /\ categoryForm = [s \in Sessions |-> NoCategoryForm]
    /\ productForm = [s \in Sessions |-> NoProductForm]
    /\ storeWrites = <<>>

\* CustomersTable is mounted, the other tables are not
CustomersPageInit ==
    /\ CustInit /\ categoriesDocs = <<>> /\ productsDocs = <<>>
    /\ CatIdle /\ ProdIdle /\ DetailsIdle /\ FormsIdle
    /\ route = "/dashboard/customers" /\ toasts = <<>> /\ rejections = <<>>

\* CategoriesTable is mounted, the other tables are not
CategoriesPageInit ==
    /\ CatInit /\ CustIdle /\ ProdIdle /\ DetailsIdle /\ FormsIdle
    /\ route = "/dashboard/categories" /\ toasts = <<>> /\ rejections = <<>>

\* ProductsTable is mounted, the other tables are not
ProductsPageInit ==
    /\ ProdInit /\ CustIdle /\ CatIdle /\ DetailsIdle /\ FormsIdle
    /\ route = "/dashboard/products" /\ toasts = <<>> /\ rejections = <<>>

\* CustomerDetails or OrderDetails is mounted, nothing else
DetailsPageInit ==
    /\ CustomerDetailsInit \/ OrderDetailsInit
    /\ custPc = "idle" /\ custSnapshot = <<>> /\ customers = <<>>
    /\ filteredCustomers = <<>> /\ custLoading = TRUE
    /\ custSearchQuery = EmptyStr /\ custCrashed = FALSE
    /\ categoriesDocs = <<>> /\ productsDocs = <<>>
    /\ CatIdle /\ ProdIdle /\ FormsIdle
    /\ toasts = <<>> /\ rejections = <<>>

SpecDetails == DetailsPageInit /\ [][DetailsNext]_vars

\* a detail view is mounted on a store of at most two customers and orders
DetailsNavInit ==
    /\ DetailsPageInit
    /\ Len(customersDocs) + Len(ordersDocs) <= 2

SpecDetailsNav == DetailsNavInit /\ [][DetailsNavNext]_vars

\* CategoryForm is open in one or more sessions, nothing else
CategoryFormPageInit ==
    /\ CategoryFormInit
    /\ CustIdle /\ CatIdle /\ ProdIdle /\ DetailsIdle
    /\ productForm = [s \in Sessions |-> NoProductForm]
    /\ route = "" /\ toasts = <<>> /\ rejections = <<>>

SpecCategoryForm == CategoryFormPageInit /\ [][CategoryFormNext]_vars

\* ProductForm is open in one session, nothing else
ProductFormPageInit ==
    /\ ProductFormStores
    /\ \E id \in ProductFormProps :
         productForm = [s \in Sessions |->
                          IF s = 1 THEN ProductFormMounted(id) ELSE NoProductForm]
    /\ categoryForm = [s \in Sessions |-> NoCategoryForm]
    /\ storeWrites = <<>>
    /\ CustIdle /\ CatIdle /\ ProdIdle /\ DetailsIdle
    /\ route = "" /\ toasts = <<>> /\ rejections = <<>>

SpecProductForm == ProductFormPageInit /\ [][ProductFormNext]_vars

\* two sessions open the edit form of the same category, or of the same
\* product
EditSessionsInit ==
    /\ \/ /\ categoriesDocs \in CategoryStoresOf({Undefined, Str_Ab})
          /\ productsDocs = <<>>
          /\ categoryForm = [s \in Sessions |-> CategoryFormMounted(CatId(1))]
          /\ productForm = [s \in Sessions |-> NoProductForm]
       \/ /\ ProductFormStores
          /\ categoryForm = [s \in Sessions |-> NoCategoryForm]
          /\ productForm = [s \in Sessions |-> ProductFormMounted(ProdId(1))]
    /\ storeWrites = <<>>
    /\ CustIdle /\ CatIdle /\ ProdIdle /\ DetailsIdle
    /\ route = "" /\ toasts = <<>> /\ rejections = <<>>

\* loading, typing a name and saving, in either session
EditSessionsNext ==
    \E s \in Sessions :
      \/ CfGetCategory(s)
      \/ CfFetchRejected(s)
      \/ \E v \in FormNames : CfInputChange(s, v)
      \/ CfSubmit(s)
      \/ CfStoreApplies(s)
      \/ CfWriteResolved(s)
      \/ CfWriteRejected(s)
      \/ PfGetProduct(s)
      \/ PfGetSubcategories(s)
      \/ PfFetchRejected(s)
      \/ \E v \in FormNames : PfInputChange(s, v)
      \/ PfSubmit(s)
      \/ PfStoreApplies(s)
      \/ PfWriteResolved(s)
      \/ PfWriteRejected(s)

SpecEditSessions == EditSessionsInit /\ [][EditSessionsNext]_vars

SpecCustomers == CustomersPageInit /\ [][CustNext]_vars

Str_u1 == <<"u", "1">>
Str_10_005 == <<"1", "0", ".", "0", "0", "5">>
Str_5 == <<"5">>
Str_1_005 == <<"1", ".", "0", "0", "5">>

\* amounts with a third decimal, which doubles do not hold exactly
DecimalAmounts == {Str_10_005, Str_5, Str_1_005, Str_2_5}

\* CustomersTable is mounted on a store with customers of userId "u1" and
\* with orders of "u1" whose amounts are decimal strings
AmountsPageInit ==
    /\ customersDocs \in
         { [i \in 1..n |-> [id |-> CustId(i), userId |-> Str_u1, createdAt |-> i]] :
             n \in 1..MaxCustomers }
    /\ ordersDocs \in
         UNION { { [i \in 1..n |-> [id |-> OrderId(i), userId |-> Str_u1,
                                    totalAmount |-> f[i]]] :
                     f \in [1..n -> DecimalAmounts] } : n \in 0..MaxOrders }
    /\ custPc = "getCustomers"
    /\ custSnapshot = <<>>
    /\ customers = <<>>
    /\ filteredCustomers = <<>>
    /\ custLoading = TRUE
    /\ custSearchQuery = EmptyStr
    /\ custCrashed = FALSE
    /\ categoriesDocs = <<>> /\ productsDocs = <<>>
    /\ CatIdle /\ ProdIdle /\ DetailsIdle /\ FormsIdle
    /\ route = "/dashboard/customers" /\ toasts = <<>> /\ rejections = <<>>

SpecAmounts == AmountsPageInit /\ [][CustNext]_vars

SpecCategories == CategoriesPageInit /\ [][CatOwnNext]_vars

SpecCategoriesShared == CategoriesPageInit /\ [][CatSharedNext]_vars

SpecProducts == ProductsPageInit /\ [][ProdNext]_vars

\* the dashboard with any one of the three tables open
TablesInit == CustomersPageInit \/ CategoriesPageInit \/ ProductsPageInit

\* loading and searching, without the deletes
SearchNext ==
    \/ CustGetCustomers
    \/ CustGetOrders
    \/ CustFetchRejected
    \/ \E q \in SearchQueries : CustSetSearchQuery(q)
    \/ CatGetCategories
    \/ CatGetProducts
    \/ CatFetchRejected
    \/ \E q \in SearchQueries : CatSetSearchQuery(q)
    \/ ProdGetProducts
    \/ ProdGetCategories
    \/ ProdFetchRejected
    \/ \E q \in ProductQueries : ProdSetSearchQuery(q)

SpecSearch == TablesInit /\ [][SearchNext]_vars

\* the dashboard with any one of its pages open: a table, a detail view or a
\* form, on a store of at most two customers and orders and at most two
\* categories and products
DashboardInit ==
    /\ \/ CustomersPageInit
       \/ CategoriesPageInit
       \/ ProductsPageInit
       \/ DetailsPageInit
       \/ CategoryFormPageInit
       \/ ProductFormPageInit
    /\ Len(customersDocs) + Len(ordersDocs) <= 2
    /\ Len(categoriesDocs) + Len(productsDocs) <= 2

\* every step of every page
DashboardNext ==
    \/ CustNext
    \/ CatOwnNext
    \/ ProdNext
    \/ DetailsNext
    \/ CategoryFormNext
    \/ ProductFormNext

SpecDashboard == DashboardInit /\ [][DashboardNext]_vars

\* CustomersTable in one tab and CustomerDetails in another, on one store of
\* at most MaxCustomers + 1 customers and orders
CustomerViewsInit ==
    /\ CustInit
    /\ Len(customersDocs) + Len(ordersDocs) <= MaxCustomers + 1
    /\ addressesDocs = <<>>
    /\ \E id \in {CustId(1), CustId(2)} :
         customerDetails = [NoCustomerDetails EXCEPT !.customerId = id, !.pc = "getCustomer"]
    /\ orderDetails = NoOrderDetails
    /\ categoriesDocs = <<>> /\ productsDocs = <<>>
    /\ CatIdle /\ ProdIdle /\ FormsIdle
    /\ route = "/dashboard/customers/[id]" /\ toasts = <<>> /\ rejections = <<>>

\* the fetches of the two views
CustomerViewsNext ==
    \/ CustGetCustomers
    \/ CustGetOrders
    \/ CustFetchRejected
    \/ DetGetCustomer
    \/ DetGetAddresses
    \/ DetGetOrders
    \/ DetFetchRejected

SpecCustomerViews == CustomerViewsInit /\ [][CustomerViewsNext]_vars

\* the store answers a read of a fetch: by rejecting, or with the documents
FetchAnswered ==
    \/ CustFetchRejected \/ CustGetCustomers \/ CustGetOrders
    \/ CatFetchRejected \/ CatGetCategories \/ CatGetProducts
    \/ ProdFetchRejected \/ ProdGetProducts \/ ProdGetCategories
    \/ DetFetchRejected \/ DetGetCustomer \/ DetGetAddresses \/ DetGetOrders
    \/ OrdFetchRejected \/ OrdGetOrder \/ OrdGetAddress
    \/ \E s \in Sessions :
         \/ CfFetchRejected(s) \/ CfGetCategory(s)
         \/ PfFetchRejected(s) \/ PfGetProduct(s) \/ PfGetSubcategories(s)

\* what goes on while a fetch awaits the store: its reads are answered, the
\* user types a query over the table, the reads of earlier runs and the lookup
\* reads of ProductForm are answered, the id of a detail view changes, the
\* detail view is left
FetchesNext ==
    \/ FetchAnswered
    \/ \E q \in SearchQueries : CustSetSearchQuery(q)
    \/ \E q \in SearchQueries : CatSetSearchQuery(q)
    \/ \E q \in ProductQueries : ProdSetSearchQuery(q)
    \/ \E s \in Sessions : PfLookupsResolved(s) \/ PfLookupsRejected(s)
    \/ \E id \in CustomerDetailsIds : DetCustomerIdChanges(id)
    \/ \E id \in OrderDetailsIds : OrdOrderIdChanges(id)
    \/ DetLeave
    \/ OrdLeave
    \/ \E k \in 1..(MaxIdChanges + 1) :
         \/ DetEarlierGetCustomer(k)
         \/ DetEarlierGetAddresses(k)
         \/ DetEarlierGetOrders(k)
         \/ DetEarlierRejected(k)
         \/ OrdEarlierGetOrder(k)
         \/ OrdEarlierGetAddress(k)
         \/ OrdEarlierRejected(k)

\* the pages up to the end of their fetches, on a store that answers every
\* read of a fetch in the end
SpecFetches ==
    DashboardInit /\ [][FetchesNext]_vars /\ WF_vars(FetchAnswered)

(***************************************************************************)
(* Claims about CustomersTable                                             *)
(***************************************************************************)
RECURSIVE SumOver(_, _)
SumOver(S, F) ==
    IF S = {} THEN 0
    ELSE LET x == CHOOSE y \in S : TRUE IN F[x] + SumOver(S \ {x}, F)

\* the orders in the store whose userId equals u
OrdersOf(u) == { j \in DOMAIN ordersDocs : ordersDocs[j].userId = u }

\* the orders in the store whose userId is non-empty and equals u
OrdersWithUserId(u) == { j \in OrdersOf(u) : Truthy(u) }

AmountOf == [j \in DOMAIN ordersDocs |-> OrZero(parseFloat(ordersDocs[j].totalAmount))]

\* the rows are the customer documents, one row each
OneRowPerCustomer ==
    /\ Len(customers) = Len(customersDocs)
    /\ \A d \in DOMAIN customersDocs :
         Cardinality({ i \in DOMAIN customers :
                         /\ customers[i].id = customersDocs[d].id
                         /\ customers[i].userId = customersDocs[d].userId
                         /\ customers[i].createdAt = customersDocs[d].createdAt }) = 1

RowCounts == [i \in DOMAIN customers |-> customers[i].orderCount]

C3_RowsCountProducts ==
    catPc = "done" =>
      /\ Len(categories) = Len(categoriesDocs)
      /\ \A d \in DOMAIN categoriesDocs :
           Cardinality({ i \in DOMAIN categories :
                           /\ categories[i].id = categoriesDocs[d].id
                           /\ categories[i].name = categoriesDocs[d].name }) = 1
      /\ \A i \in DOMAIN categories :
           categories[i].productCount =
             Cardinality({ j \in DOMAIN productsDocs :
                             productsDocs[j].categoryId = categories[i].id })

\* a category with two products beside a category with none
C3_Witness ==
    /\ catPc = "done"
    /\ \E i, k \in DOMAIN categories :
         categories[i].productCount = 2 /\ categories[k].productCount = 0

\* C4 as stated: a confirmed delete issues the store delete exactly when the
\* store holds no product of the category at the moment of the confirmation.
C4_AsStated ==
    catConfirmLog.n > 0 => (catConfirmLog.issued <=> catConfirmLog.inStore = 0)

\* C5 as stated: the count checked before a delete is issued is the one the
\* store holds when the delete is confirmed, not the one of the loaded row.
C5_AsStated ==
    catConfirmLog.issued => catConfirmLog.checked = catConfirmLog.inStore

\* C6: a confirmed delete of a category whose row has productCount > 0 issues
\* no store delete, shows "Cannot delete category", leaves both row lists and
\* the store as they are with the category in the full list, and clears the
\* pending-delete selection.
C6_BlockedDeleteAborts ==
    [][ ( /\ catConfirmLog'.n = catConfirmLog.n + 1
          /\ FoundProductCount(categories, deleteCategoryId) > 0 )
        => ( /\ catDeleting' = catDeleting
             /\ categoriesDocs' = categoriesDocs
             /\ productsDocs' = productsDocs
             /\ toasts' = Append(toasts, "Cannot delete category")
             /\ categories' = categories
             /\ filteredCategories' = filteredCategories
             /\ \E i \in DOMAIN categories' : categories'[i].id = deleteCategoryId
             /\ deleteCategoryId' = Null ) ]_vars

\* the delete of a displayed category with products has been refused
C6_Witness ==
    /\ catConfirmLog.n > 0
    /\ ~catConfirmLog.issued
    /\ catConfirmLog.checked > 0
    /\ deleteCategoryId = Null
    /\ catDeleting = <<>>
    /\ toasts = <<"Cannot delete category">>
    /\ \E i \in DOMAIN categories : categories[i].id = catConfirmLog.id
    /\ \E i \in DOMAIN filteredCategories : filteredCategories[i].id = catConfirmLog.id
    /\ \E i \in DOMAIN categoriesDocs : categoriesDocs[i].id = catConfirmLog.id

(***************************************************************************)
(* Claims about ProductsTable                                              *)
(***************************************************************************)
\* the category documents in the store whose id is categoryId
CategoriesWithId(categoryId) ==
    { d \in DOMAIN categoriesDocs : categoriesDocs[d].id = categoryId }

\* C7 as stated: categoryName is the matching category's name when the
\* categoryId is set and equals a category id, "Uncategorized" otherwise,
\* also for a categoryId that is set and matches no category.
C7_AsStated ==
    prodPc = "done" =>
      \A i \in DOMAIN products :
        IF Truthy(products[i].categoryId) /\ CategoriesWithId(products[i].categoryId) # {}
        THEN \E d \in CategoriesWithId(products[i].categoryId) :
               products[i].categoryName = categoriesDocs[d].name
        ELSE products[i].categoryName = Str_Uncategorized

\* C8: a product whose categoryId is null, missing or empty has categoryName
\* "Uncategorized", and resolving it against any other category set gives
\* the same name.
C8_FalsyCategoryIdIsUncategorized ==
    prodPc = "done" =>
      \A i \in DOMAIN products :
        ~Truthy(products[i].categoryId) =>
          /\ products[i].categoryName = Str_Uncategorized
          /\ \A G \in CategoryStoresOf({Str_a, Str_Ab}) :
               ProductsData(<<products[i]>>, G)[1].categoryName = products[i].categoryName

\* products with a missing, a null and an empty categoryId were resolved
\* while the store held categories
C8_Witness ==
    /\ prodPc = "done"
    /\ categoriesDocs # <<>>
    /\ \E i, k \in DOMAIN products :
         /\ products[i].categoryId = Null
         /\ products[i].categoryName = Str_Uncategorized
         /\ products[k].categoryId \in {Undefined, EmptyStr}
         /\ products[k].categoryName = Str_Uncategorized

(***************************************************************************)
(* Claims about the search filter of the three tables                      *)
(***************************************************************************)
\* x and y are the same letter, whatever their case
SameLetter(x, y) == x = y \/ LowerChar(x) = y \/ x = LowerChar(y)

\* field is a string that contains q as a case-insensitive substring
ContainsIgnoringCase(field, q) ==
    /\ field # Undefined
    /\ \E off \in 0..(Len(field) - Len(q)) :
         \A k \in 1..Len(q) : SameLetter(field[off + k], q[k])

\* list is the subsequence of rows, in the order of rows, of the rows whose
\* index is in M
IsSubsequenceAt(list, rows, M) ==
    /\ Len(list) = Cardinality(M)
    /\ \A k \in 1..Len(list) :
         \E i \in M : /\ Cardinality({ j \in M : j < i }) = k - 1
                      /\ list[k] = rows[i]

CustomerHits(q) ==
    { i \in DOMAIN customers : ContainsIgnoringCase(customers[i].userId, q) }

CategoryHits(q) ==
    { i \in DOMAIN categories : ContainsIgnoringCase(categories[i].name, q) }

ProductHits(q) ==
    { i \in DOMAIN products :
        \/ ContainsIgnoringCase(products[i].name, q)
        \/ ContainsIgnoringCase(products[i].description, q)
        \/ ContainsIgnoringCase(products[i].categoryName, q) }

\* C9: once the filter has run for a non-empty query, the displayed list is
\* the subsequence, in row order, of the loaded rows of which a searchable
\* field contains the query as a case-insensitive substring.
C9_FilteredIsMatchingSubsequence ==
    /\ (custPc = "done" /\ ~custCrashed /\ Truthy(custSearchQuery)) =>
         IsSubsequenceAt(filteredCustomers, customers, CustomerHits(custSearchQuery))
    /\ (catPc = "done" /\ ~catCrashed /\ Truthy(catSearchQuery)) =>
         IsSubsequenceAt(filteredCategories, categories, CategoryHits(catSearchQuery))
    /\ (prodPc = "done" /\ ~prodCrashed /\ Truthy(prodSearchQuery)) =>
         IsSubsequenceAt(filteredProducts, products, ProductHits(prodSearchQuery))

\* a query in upper case has kept one of two customers
C9_Witness ==
    /\ custPc = "done"
    /\ ~custCrashed
    /\ custSearchQuery = Str_B
    /\ Len(customers) = 2
    /\ Len(filteredCustomers) = 1
    /\ filteredCustomers[1].userId = Str_Ab

\* C10: filtering twice by a query gives what filtering once gives; the empty
\* query gives the full list, rows and order unchanged, which for customers
\* is the order of descending createdAt.
C10_FilterIdempotentAndEmptyIsIdentity ==
    /\ custPc = "done" =>
         /\ \A q \in SearchQueries :
              ~FilterCustomersThrows(customers, q) =>
                FilterCustomers(FilterCustomers(customers, q), q) = FilterCustomers(customers, q)
         /\ (~custCrashed /\ custSearchQuery = EmptyStr) =>
              /\ filteredCustomers = customers
              /\ Len(filteredCustomers) = Len(customersDocs)
              /\ \A i, j \in DOMAIN filteredCustomers :
                   i < j => filteredCustomers[i].createdAt >= filteredCustomers[j].createdAt
    /\ catPc = "done" =>
         /\ \A q \in SearchQueries :
              ~FilterCategoriesThrows(categories, q) =>
                FilterCategories(FilterCategories(categories, q), q) = FilterCategories(categories, q)
         /\ (~catCrashed /\ catSearchQuery = EmptyStr) =>
              /\ filteredCategories = categories
              /\ \A i \in DOMAIN categoriesDocs : filteredCategories[i].id = categoriesDocs[i].id
    /\ prodPc = "done" =>
         /\ \A q \in ProductQueries :
              ~FilterProductsThrows(products, q) =>
                FilterProducts(FilterProducts(products, q), q) = FilterProducts(products, q)
         /\ (~prodCrashed /\ prodSearchQuery = EmptyStr) =>
              /\ filteredProducts = products
              /\ \A i \in DOMAIN productsDocs : filteredProducts[i].id = productsDocs[i].id

\* with an empty query, two customers stored in ascending createdAt are
\* listed in descending createdAt, and the query "a" would drop a row
C10_Witness ==
    /\ custPc = "done"
    /\ ~custCrashed
    /\ custSearchQuery = EmptyStr
    /\ Len(customersDocs) = 2
    /\ customersDocs[1].createdAt < customersDocs[2].createdAt
    /\ filteredCustomers = customers
    /\ filteredCustomers[1].id = customersDocs[2].id
    /\ FilterCustomers(customers, Str_a) # customers

(***************************************************************************)
(* Claims about the documents the aggregations pass over                   *)
(***************************************************************************)
\* the orders whose userId is the userId of some customer document
OrdersOfCustomers ==
    LET Keep(o) == \E d \in DOMAIN customersDocs : customersDocs[d].userId = o.userId
    IN  SelectSeq(ordersDocs, Keep)

\* the orders whose userId is the userId of no customer document
OrphanOrders ==
    { j \in DOMAIN ordersDocs :
        \A d \in DOMAIN customersDocs : customersDocs[d].userId # ordersDocs[j].userId }

\* orders without its j-th element
WithoutOrder(orders, j) == SubSeq(orders, 1, j - 1) \o SubSeq(orders, j + 1, Len(orders))

\* C11: an order whose userId is the userId of no customer changes no row:
\* the rows are those the store gives without it, and without all such
\* orders; there is one row per customer document, none for the order, and
\* no notice is shown.
C11_OrphanOrdersChangeNoRow ==
    custPc = "done" =>
      /\ \A j \in OrphanOrders :
           customers = CustomersData(custSnapshot, WithoutOrder(ordersDocs, j))
      /\ customers = CustomersData(custSnapshot, OrdersOfCustomers)
      /\ Len(customers) = Len(customersDocs)
      /\ \A i \in DOMAIN customers :
           /\ \E d \in DOMAIN customersDocs : customers[i].id = customersDocs[d].id
           /\ \A j \in OrphanOrders :
                /\ customers[i].id # ordersDocs[j].id
                /\ customers[i].userId # ordersDocs[j].userId
      /\ toasts = <<>>

\* the table shows a customer with one order of 2.50 and a customer with no
\* order, while the store holds a second order, of a user who is no customer
C11_Witness ==
    /\ custPc = "done"
    /\ toasts = <<>>
    /\ Len(customers) = 2
    /\ \E i, k \in DOMAIN customers :
         /\ customers[i].userId = Str_a
         /\ customers[i].orderCount = 1
         /\ customers[i].totalAmount = <<"2", ".", "5", "0">>
         /\ customers[k].orderCount = 0
    /\ \E j \in OrphanOrders :
         /\ ordersDocs[j].userId = Str_Ab
         /\ ordersDocs[j].totalAmount = Str_0_125

\* the orders whose totalAmount is missing or no number
UnparseableOrders ==
    { j \in DOMAIN ordersDocs : parseFloat(ordersDocs[j].totalAmount).nan }

\* the orders, each totalAmount that is missing or no number replaced by "0"
OrdersWithZeroForUnparseable ==
    [j \in DOMAIN ordersDocs |->
       IF j \in UnparseableOrders
       THEN [ordersDocs[j] EXCEPT !.totalAmount = <<"0">>]
       ELSE ordersDocs[j]]

\* C12: an order whose totalAmount is missing or no number counts as one
\* order of its customer and adds what an order of "0" adds to the total;
\* the load ends with the rows and without a notice.
C12_UnparseableAmountCountsAsZero ==
    custPc = "done" =>
      /\ customers = CustomersData(custSnapshot, OrdersWithZeroForUnparseable)
      /\ \A i \in DOMAIN customers :
           Truthy(customers[i].userId) =>
             /\ customers[i].orderCount = Cardinality(OrdersOf(customers[i].userId))
             /\ customers[i].totalAmount =
                  toFixed2(SumOver(OrdersOf(customers[i].userId) \ UnparseableOrders, AmountOf))
      /\ toasts = <<>>
      /\ ~custLoading

\* a customer with an order of 2.5 and an order whose totalAmount is missing
\* or "x" is shown with two orders and "2.50"
C12_Witness ==
    /\ custPc = "done"
    /\ toasts = <<>>
    /\ \E i \in DOMAIN customers :
         /\ customers[i].orderCount = 2
         /\ customers[i].totalAmount = <<"2", ".", "5", "0">>
         /\ \E j \in UnparseableOrders : ordersDocs[j].userId = customers[i].userId

\* the products whose categoryId is set
ProductsWithCategoryId ==
    LET Keep(p) == Truthy(p.categoryId) IN SelectSeq(productsDocs, Keep)

\* C13: the products whose categoryId is missing, null or empty add to no
\* productCount: every row is a row the store gives without them, the counts
\* sum to no more than the products that have a categoryId, and there is no
\* row but the rows of the category documents read.
C13_FalsyCategoryIdIsInNoCount ==
    catPc = "done" =>
      /\ \A i \in DOMAIN categories :
           /\ \E r \in DOMAIN catSnapshot :
                categories[i] = CategoriesData(catSnapshot, ProductsWithCategoryId)[r]
           /\ categories[i].id \in CategoryIds
      /\ SumOver(DOMAIN categories, [i \in DOMAIN categories |-> categories[i].productCount])
           <= Len(ProductsWithCategoryId)
      /\ Len(categories) <= Len(catSnapshot)

\* a category with one product is shown while the store holds a product
\* whose categoryId is missing, null or empty
C13_Witness ==
    /\ catPc = "done"
    /\ \E i \in DOMAIN categories : categories[i].productCount = 1
    /\ \A i \in DOMAIN categories : categories[i].productCount <= 1
    /\ Len(productsDocs) = 2
    /\ \E j \in DOMAIN productsDocs : ~Truthy(productsDocs[j].categoryId)

(***************************************************************************)
(* Claims about the reads of a screen                                      *)
(***************************************************************************)
\* C14 as stated: while a read of a screen is pending, and after one has
\* failed, the screen shows nothing it got from its other reads: a table
\* shows no rows, a detail view shows no details.
C14_AsStated ==
    /\ custPc \in {"getCustomers", "getOrders", "failed"} =>
         custLoading \/ filteredCustomers = <<>>
    /\ catPc \in {"getCategories", "getProducts", "failed"} =>
         catLoading \/ filteredCategories = <<>>
    /\ prodPc \in {"getProducts", "getCategories", "failed"} =>
         prodLoading \/ filteredProducts = <<>>
    /\ customerDetails.pc \in {"getCustomer", "getAddresses", "getOrders", "failed"} =>
         CustomerDetailsShown # "details"
    /\ orderDetails.pc \in {"getOrder", "getAddress", "failed"} =>
         OrderDetailsShown # "details"

\* a read issued by the ProductForm of session s is awaiting its response
PfFetchInFlight(s) ==
    /\ productForm[s].pc \notin {"idle", "left"}
    /\ \/ productForm[s].pc \in {"getProduct", "getSubcategories"}
       \/ productForm[s].lookups = "pending"
       \/ productForm[s].subQueries # <<>>

\* C15 as stated: while a read issued by a table or form is awaiting its
\* response, the panel shows its loading indicator and no delete and no
\* submit can be started from it; for the forms this covers the lookup reads.
C15_AsStated ==
    /\ catPc \in {"getCategories", "getProducts"} =>
         catLoading /\ ~ENABLED CatConfirmDelete
    /\ prodPc \in {"getProducts", "getCategories"} =>
         prodLoading /\ ~ENABLED ProdConfirmDelete
    /\ \A s \in Sessions :
         /\ categoryForm[s].pc = "getCategory" =>
              CategoryFormShown(s) = "spinner" /\ ~ENABLED CfSubmit(s)
         /\ PfFetchInFlight(s) =>
              ProductFormShown(s) = "spinner" /\ ~ENABLED PfSubmit(s)

(***************************************************************************)
(* Claims about the writes of the forms                                    *)
(***************************************************************************)
\* the collection a form writes
DocsOf(form) == IF form = "CategoryForm" THEN categoriesDocs ELSE productsDocs

\* the writes that no later write to the same document follows
LastWrites ==
    { w \in DOMAIN storeWrites :
        \A v \in DOMAIN storeWrites :
          (v > w /\ storeWrites[v].form = storeWrites[w].form) =>
            storeWrites[v].id # storeWrites[w].id }

\* the store has applied a write of session s from the form
HasWritten(s, form) ==
    \E w \in DOMAIN storeWrites : storeWrites[w].by = s /\ storeWrites[w].form = form

\* the notices of the edit forms: of a load, of a save
EditFormNotices ==
    {"Category not found", "Error: Failed to load category data", "Category updated",
     "Error: Failed to save category", "Error: Failed to load product", "Updated",
     "Error: Failed to save product"}

\* C16: when two sessions edit one document, the store takes the update of
\* each, whatever the other has written; a session whose update has been
\* acknowledged has the success notice as its last notice and is on the list
\* page; the stored document holds, in every field the form writes, the value
\* of the update the store applied last; and no session ever gets a notice
\* but those of its own load and save.
C16_LastWriteWins ==
    /\ \A w \in LastWrites :
         LET d == GetDoc(DocsOf(storeWrites[w].form), storeWrites[w].id)
         IN  /\ d # NoDoc
             /\ \A f \in DOMAIN storeWrites[w].data : d[f] = storeWrites[w].data[f]
    /\ \A s \in Sessions :
         /\ (categoryForm[s].pc = "write"
               /\ GetDoc(categoriesDocs, categoryForm[s].categoryId) # NoDoc) =>
              ENABLED CfStoreApplies(s)
         /\ (productForm[s].pc = "write"
               /\ GetDoc(productsDocs, productForm[s].productId) # NoDoc) =>
              ENABLED PfStoreApplies(s)
         /\ (categoryForm[s].pc = "left" /\ HasWritten(s, "CategoryForm")) =>
              /\ categoryForm[s].toasts[Len(categoryForm[s].toasts)] = "Category updated"
              /\ categoryForm[s].route = "/dashboard/categories"
         /\ (productForm[s].pc = "left" /\ HasWritten(s, "ProductForm")) =>
              /\ productForm[s].toasts[Len(productForm[s].toasts)] = "Updated"
              /\ productForm[s].route = "/dashboard/products"
         /\ \A i \in DOMAIN categoryForm[s].toasts : categoryForm[s].toasts[i] \in EditFormNotices
         /\ \A i \in DOMAIN productForm[s].toasts : productForm[s].toasts[i] \in EditFormNotices

\* both sessions have loaded category g1 and saved it under different names;
\* each has its success notice and the store holds the name saved last
C16_Witness ==
    /\ Len(storeWrites) = 2
    /\ storeWrites[1].by # storeWrites[2].by
    /\ storeWrites[1].id = CatId(1) /\ storeWrites[2].id = CatId(1)
    /\ storeWrites[1].data.name # storeWrites[2].data.name
    /\ GetDoc(categoriesDocs, CatId(1)).name = storeWrites[2].data.name
    /\ \A s \in Sessions :
         /\ categoryForm[s].pc = "left"
         /\ categoryForm[s].toasts = <<"Category updated">>

(***************************************************************************)
(* Claims about failures                                                   *)
(***************************************************************************)
\* the handlers that call deleteDoc, updateDoc or setDoc
WriteCalls ==
    {"CategoriesTable.handleDeleteCategory", "ProductsTable.handleDeleteProduct",
     "CategoryForm.handleSubmit", "ProductForm.handleSubmit"}

\* the step is the rejection of a call made by one of the handlers of Calls
RejectedStepOf(Calls) ==
    /\ Len(rejections') = Len(rejections) + 1
    /\ rejections'[Len(rejections')][1] \in Calls

\* the notices shown so far: those of the open table or detail view, and
\* those of each session's forms
NoticeLists ==
    <<toasts, categoryForm[1].toasts, categoryForm[2].toasts,
      productForm[1].toasts, productForm[2].toasts>>

GenericWriteErrors ==
    {"Error: Failed to delete category", "Error: Failed to delete product",
     "Error: Failed to save category", "Error: Failed to save product"}

\* the step shows exactly one notice, with a title of Titles
ShowsOneNoticeOf(Titles) ==
    \E i \in DOMAIN NoticeLists : \E title \in Titles :
        NoticeLists' = [NoticeLists EXCEPT ![i] = Append(@, title)]

\* the store writes that have been issued and have not been answered
PendingWrites ==
    Len(catDeleting) + Len(prodDeleting)
      + Cardinality({ s \in Sessions : categoryForm[s].pc \in {"write", "applied"} })
      + Cardinality({ s \in Sessions : productForm[s].pc \in {"write", "applied"} })

\* the reads that have been issued and have not been answered
PendingReads ==
    <<custPc, catPc, prodPc, customerDetails.pc, orderDetails.pc,
      [s \in Sessions |-> categoryForm[s].pc = "getCategory"],
      [s \in Sessions |-> <<productForm[s].pc \in {"getProduct", "getSubcategories"},
                            productForm[s].lookups = "pending",
                            productForm[s].subQueries>>]>>

\* C17: when deleteDoc, updateDoc or setDoc rejects, the step shows exactly one
\* generic error notice, issues no store request (the rejected write is no
\* longer pending, no other write or read has been added, the store is as it
\* was), leaves the rows and the filtered rows of the tables unchanged, and
\* leaves every form on its page with the data it held
C17_RejectedWriteAborts ==
    [][ RejectedStepOf(WriteCalls) =>
          /\ ShowsOneNoticeOf(GenericWriteErrors)
          /\ PendingWrites' = PendingWrites - 1
          /\ PendingReads' = PendingReads
          /\ UNCHANGED <<storeVars, addressesDocs, storeWrites>>
          /\ UNCHANGED <<categories, filteredCategories, products, filteredProducts>>
          /\ \A s \in Sessions :
               /\ categoryForm'[s].route = categoryForm[s].route
               /\ categoryForm'[s].name = categoryForm[s].name
               /\ categoryForm[s].pc # "left" => categoryForm'[s].pc # "left"
               /\ productForm'[s].route = productForm[s].route
               /\ productForm'[s].formData = productForm[s].formData
               /\ productForm[s].pc # "left" => productForm'[s].pc # "left"
      ]_vars

\* C17 witness: the delete of a category was confirmed and issued, deleteDoc
\* has rejected, and the category is a row of both lists
C17_Witness ==
    /\ catConfirmLog.issued
    /\ catDeleting = <<>>
    /\ \E i \in DOMAIN rejections :
         rejections[i][1] = "CategoriesTable.handleDeleteCategory"
    /\ \E i \in DOMAIN categories : categories[i].id = catConfirmLog.id
    /\ \E i \in DOMAIN filteredCategories : filteredCategories[i].id = catConfirmLog.id
    /\ toasts = <<"Error: Failed to delete category">>

\* the step shows exactly one notice, whatever its title
ShowsOneNotice ==
    \E i \in DOMAIN NoticeLists :
      /\ Len(NoticeLists'[i]) = Len(NoticeLists[i]) + 1
      /\ SubSeq(NoticeLists'[i], 1, Len(NoticeLists[i])) = NoticeLists[i]
      /\ \A j \in DOMAIN NoticeLists : j # i => NoticeLists'[j] = NoticeLists[j]

\* the getDoc of CustomerDetails is answered, and there is no such customer
CustomerNotFoundStep ==
    /\ customerDetails.pc = "getCustomer"
    /\ GetDoc(customersDocs, customerDetails.customerId) = NoDoc
    /\ customerDetails'.pc # "getCustomer"
    /\ rejections' = rejections

\* the getDoc of OrderDetails is answered, and there is no such order
OrderNotFoundStep ==
    /\ orderDetails.pc = "getOrder"
    /\ GetDoc(ordersDocs, orderDetails.orderId) = NoDoc
    /\ orderDetails'.pc # "getOrder"
    /\ rejections' = rejections

\* the getDoc of session s's CategoryForm is answered, and there is no such
\* category
CategoryNotFoundStep(s) ==
    /\ categoryForm[s].pc = "getCategory"
    /\ GetDoc(categoriesDocs, categoryForm[s].categoryId) = NoDoc
    /\ categoryForm'[s].pc # "getCategory"
    /\ rejections' = rejections

\* the getDoc of session s's ProductForm is answered, and there is no such
\* product
ProductNotFoundStep(s) ==
    /\ productForm[s].pc = "getProduct"
    /\ GetDoc(productsDocs, productForm[s].productId) = NoDoc
    /\ productForm'[s].pc # "getProduct"
    /\ rejections' = rejections

\* C18: when the getDoc of customer details, order details, the category edit
\* form or the product edit form is answered and the requested document does
\* not exist, the step shows exactly one notice, goes to the list page of the
\* collection, leaves the view's state without document data, and ends
\* loading
C18_NotFoundLeavesWithOneNotice ==
    [][ /\ CustomerNotFoundStep =>
             /\ ShowsOneNotice
             /\ route' = "/dashboard/customers"
             /\ customerDetails'.customer = NoDoc
             /\ customerDetails'.addresses = <<>>
             /\ customerDetails'.orders = <<>>
             /\ customerDetails'.loading = FALSE
        /\ OrderNotFoundStep =>
             /\ ShowsOneNotice
             /\ route' = "/dashboard/orders"
             /\ orderDetails'.order = NoDoc
             /\ orderDetails'.address = NoDoc
             /\ orderDetails'.loading = FALSE
        /\ \A s \in Sessions :
             /\ CategoryNotFoundStep(s) =>
                  /\ ShowsOneNotice
                  /\ categoryForm'[s].route = "/dashboard/categories"
                  /\ categoryForm'[s].name = EmptyStr
                  /\ categoryForm'[s].loading = FALSE
             /\ ProductNotFoundStep(s) =>
                  /\ ShowsOneNotice
                  /\ productForm'[s].route = "/dashboard/products"
                  /\ productForm'[s].formData = EmptyFormData
                  /\ productForm'[s].subcategories = <<>>
                  /\ productForm'[s].loading = FALSE
      ]_vars

\* C18 witness: the category edit form was opened for an id no document has,
\* getDoc has been answered, and the session is on the list page with the one
\* notice
C18_Witness ==
    \E s \in Sessions :
      /\ categoryForm[s].isEdit
      /\ GetDoc(categoriesDocs, categoryForm[s].categoryId) = NoDoc
      /\ categoryForm[s].pc = "left"
      /\ categoryForm[s].toasts = <<"Category not found">>
      /\ categoryForm[s].route = "/dashboard/categories"
      /\ rejections = <<>>

\* C19 as stated: every rejected read, write or upload call has been caught by
\* the component that made it and has been turned into a notice; ProductForm
\* does not do so for its lookup reads and for the subcategory query of
\* handleCategoryChange
C19_AsStated ==
    \A i \in DOMAIN rejections : rejections[i][2] = "notice"

(***************************************************************************)
(* Claims about what the pages write                                       *)
(***************************************************************************)
\* the five collections
Collections ==
    <<customersDocs, ordersDocs, addressesDocs, categoriesDocs, productsDocs>>

\* the documents a step has created, changed or removed: <<collection, id>>
TouchedDocs ==
    { t \in UNION { { <<c, Collections[c][i].id>> : i \in DOMAIN Collections[c] } \cup
                    { <<c, Collections'[c][i].id>> : i \in DOMAIN Collections'[c] } :
                    c \in DOMAIN Collections } :
        GetDoc(Collections[t[1]], t[2]) # GetDoc(Collections'[t[1]], t[2]) }

\* the step is the store's answer to a deleteDoc that a confirmed delete issued
AnswersDelete ==
    /\ Len(catDeleting) + Len(prodDeleting) = Len(catDeleting') + Len(prodDeleting') + 1
    /\ storeWrites' = storeWrites

\* the step is the store applying the write that a submit of session s issued
AppliesSubmit ==
    \E s \in Sessions :
      /\ \/ categoryForm[s].pc = "write" /\ categoryForm'[s].pc = "applied"
         \/ productForm[s].pc = "write" /\ productForm'[s].pc = "applied"
      /\ Len(storeWrites') = Len(storeWrites) + 1
      /\ storeWrites'[Len(storeWrites')].by = s
      /\ storeWrites'[Len(storeWrites')].op \in {"setDoc", "updateDoc"}

\* the writes of session s's form that the store has applied
WritesOf(s, form) ==
    { i \in DOMAIN storeWrites : storeWrites[i].by = s /\ storeWrites[i].form = form }

\* C20: a step that changes a document of the store is the answer to the
\* deleteDoc of a confirmed delete or the write of a form submit, and it
\* touches exactly one document; a pending delete is added only by a confirmed
\* delete, one at a time; every other step (loading, aggregating, filtering,
\* typing) leaves all five collections as they were
C20_OnlySingleDocumentWrites ==
    [][ /\ Collections' # Collections =>
             /\ AnswersDelete \/ AppliesSubmit
             /\ Cardinality(TouchedDocs) = 1
        /\ Len(catDeleting') > Len(catDeleting) =>
             /\ Len(catDeleting') = Len(catDeleting) + 1
             /\ catConfirmLog'.n = catConfirmLog.n + 1
        /\ Len(prodDeleting') > Len(prodDeleting) =>
             /\ Len(prodDeleting') = Len(prodDeleting) + 1
             /\ prodConfirms' = prodConfirms + 1
        /\ \A s \in Sessions :
             /\ Cardinality(WritesOf(s, "CategoryForm"))' <= categoryForm'[s].submits
             /\ Cardinality(WritesOf(s, "ProductForm"))' <= productForm'[s].submits
      ]_vars

\* C20 witness: ProductsTable has loaded two products, the delete of one was
\* confirmed and answered, and the store holds the other
C20_Witness ==
    /\ Len(prodSnapshot) = 2
    /\ prodConfirms = 1
    /\ prodDeleting = <<>>
    /\ toasts = <<"Product deleted">>
    /\ Len(products) = 1
    /\ Len(productsDocs) = 1
    /\ productsDocs[1].id = products[1].id

(***************************************************************************)
(* Claims about fetches that outlive what started them                     *)
(***************************************************************************)
\* the runs of fetchCustomerDetails that await an answer of the store
CustomerRunsInFlight ==
    Len(customerDetails.earlier)
      + (IF customerDetails.pc \in CustomerFetchAwaits THEN 1 ELSE 0)

\* the runs of fetchOrderDetails that await an answer of the store
OrderRunsInFlight ==
    Len(orderDetails.earlier)
      + (IF orderDetails.pc \in OrderFetchAwaits THEN 1 ELSE 0)

\* the user leaves the view: no answer of the store is part of the step
UserLeaves(view) ==
    /\ view.pc \notin {"idle", "left", "notFound"}
    /\ view'.pc = "left"
    /\ toasts' = toasts
    /\ rejections' = rejections

\* C21: no step cancels a fetch of a detail view: when the id of the view
\* changes a run is added and the runs in flight stay in flight, when the user
\* leaves the view they stay in flight too, and when the store answers the
\* getDoc of a run the view no longer waits for, with a document and with the
\* view on the page, the view's state is set to that document
C21_FetchIsNeverCancelled ==
    [][ /\ customerDetails'.customerId # customerDetails.customerId =>
             CustomerRunsInFlight' = CustomerRunsInFlight + 1
        /\ UserLeaves(customerDetails) => CustomerRunsInFlight' = CustomerRunsInFlight
        /\ orderDetails'.orderId # orderDetails.orderId =>
             OrderRunsInFlight' = OrderRunsInFlight + 1
        /\ UserLeaves(orderDetails) => OrderRunsInFlight' = OrderRunsInFlight
        /\ \A k \in DOMAIN customerDetails.earlier :
             ( /\ customerDetails.earlier[k].pc = "getCustomer"
               /\ CustomerDetailsMounted
               /\ Len(customerDetails'.earlier) = Len(customerDetails.earlier)
               /\ customerDetails'.earlier[k].customerId = customerDetails.earlier[k].customerId
               /\ customerDetails'.earlier[k].pc = "getAddresses" )
             => customerDetails'.customer =
                  GetDoc(customersDocs, customerDetails.earlier[k].customerId)
        /\ \A k \in DOMAIN orderDetails.earlier :
             ( /\ orderDetails.earlier[k].pc = "getOrder"
               /\ OrderDetailsMounted
               /\ Len(orderDetails'.earlier) = Len(orderDetails.earlier)
               /\ orderDetails'.earlier[k].orderId = orderDetails.earlier[k].orderId
               /\ orderDetails'.earlier[k].pc = "getAddress" )
             => orderDetails'.order = GetDoc(ordersDocs, orderDetails.earlier[k].orderId)
      ]_vars

\* C21 witness: the view was opened for one customer, its id changed to a
\* second one that exists, every request has been answered, and the view
\* shows the first customer, set by the answer to the earlier request
C21_Witness ==
    /\ customerDetails.idChanges = 1
    /\ customerDetails.pc = "done"
    /\ customerDetails.earlier = <<>>
    /\ ~customerDetails.loading
    /\ customerDetails.customer # NoDoc
    /\ customerDetails.customer.id # customerDetails.customerId
    /\ customerDetails.customerData.id = customerDetails.customerId

(***************************************************************************)
(* Claims about amounts                                                    *)
(***************************************************************************)
\* the store of the scenario: one customer "u1", and the orders of "u1" with
\* the amounts "10.005" and "5", in either order
AmountsScenario ==
    /\ Len(customersDocs) = 1
    /\ customersDocs[1].userId = Str_u1
    /\ Len(ordersDocs) = 2
    /\ \A j \in DOMAIN ordersDocs : ordersDocs[j].userId = Str_u1
    /\ { ordersDocs[j].totalAmount : j \in DOMAIN ordersDocs } = {Str_10_005, Str_5}

\* C22: for customers = [{userId: "u1"}] and orders of "u1" with the amounts
\* "10.005" and "5", the row of the customer has orderCount 2 and totalAmount
\* "15.01"; the double nearest to 10.005 lies above it, the sum with 5 is
\* computed without rounding, and toFixed(2) of it is the upper hundredth
C22_ScenarioTotalIs15_01 ==
    (custPc = "done" /\ AmountsScenario) =>
      /\ Len(customers) = 1
      /\ customers[1].orderCount = 2
      /\ customers[1].totalAmount = <<"1", "5", ".", "0", "1">>
      /\ GroupOrders(ordersDocs, Len(ordersDocs))[Str_u1].exact
      /\ GroupOrders(ordersDocs, Len(ordersDocs))[Str_u1].off = 1

\* C22 witness: the table has loaded the store of the scenario, with "10.005"
\* read first, and shows "15.01"
C22_Witness ==
    /\ custPc = "done"
    /\ AmountsScenario
    /\ ordersDocs[1].totalAmount = Str_10_005
    /\ customers[1].orderCount = 2
    /\ customers[1].totalAmount = <<"1", "5", ".", "0", "1">>

(***************************************************************************)
(* Claims about the deletes of the tables                                  *)
(***************************************************************************)
\* the step is the store's acceptance of the deleteDoc that CategoriesTable
\* issued for id
CategoryDeleteAccepted(id) ==
    /\ \E k \in DOMAIN catDeleting :
         /\ catDeleting[k] = id
         /\ catDeleting' = WithoutIndex(catDeleting, k)
    /\ rejections' = rejections

\* C23: when the store accepts the delete of a category (issued for a row with
\* productCount 0), the store loses exactly that category's document, the
\* full and the filtered list lose exactly that row, every other document and
\* row stays as it was, and the notice "Category deleted" is shown
C23_AcceptedDeleteRemovesOneCategory ==
    [][ \A id \in CategoryIds \cup {CatId(i) : i \in 1..MaxCategories} :
          CategoryDeleteAccepted(id) =>
            /\ FoundProductCount(categories, id) = 0
            /\ categoriesDocs' = WithoutId(categoriesDocs, id)
            /\ UNCHANGED <<productsDocs, customersDocs, ordersDocs, addressesDocs>>
            /\ categories' = WithoutId(categories, id)
            /\ ~catCrashed => filteredCategories' = WithoutId(filteredCategories, id)
            /\ toasts' = Append(toasts, "Category deleted")
      ]_vars

\* C23 witness: two categories were loaded, the delete of one with
\* productCount 0 was confirmed and accepted; the store and both lists hold
\* the other one, and the notice is shown
C23_Witness ==
    /\ Len(catSnapshot) = 2
    /\ catConfirmLog.issued
    /\ catConfirmLog.checked = 0
    /\ catDeleting = <<>>
    /\ toasts = <<"Category deleted">>
    /\ Len(categoriesDocs) = 1 /\ categoriesDocs[1].id # catConfirmLog.id
    /\ Len(categories) = 1 /\ categories[1].id = categoriesDocs[1].id
    /\ filteredCategories = categories

(***************************************************************************)
(* Claims about the forms after a failure                                  *)
(***************************************************************************)
\* C24 as stated: a form that is back from a submit (none of its calls is
\* in flight) has loading and imageUploading false, so that its submit button
\* is enabled; a rejected uploadToS3 leaves imageUploading true in
\* ProductForm
C24_AsStated ==
    \A s \in Sessions :
      /\ categoryForm[s].pc = "form" => ~categoryForm[s].loading
      /\ productForm[s].pc = "form" =>
           ~productForm[s].loading /\ ~productForm[s].imageUploading

\* no subcategory query of a session's ProductForm has been rejected
NoSubQueryRejected ==
    \A i \in DOMAIN rejections :
      rejections[i][1] # "ProductForm.handleCategoryChange"

\* C25 as stated: once every subcategory query of a ProductForm has been
\* answered, the subcategory options are those of the selected category; the
\* responses of two category changes applied in the reverse order leave the
\* options of the category chosen first
C25_AsStated ==
    \A s \in Sessions :
      ( /\ productForm[s].pc = "form"
        /\ productForm[s].subQueries = <<>>
        /\ NoSubQueryRejected
        /\ Truthy(productForm[s].formData.categoryId) )
      => productForm[s].subcategories =
           IdAndName(SubcategoriesOf(productForm[s].formData.categoryId))

(***************************************************************************)
(* Claims about the pending-delete selection                               *)
(***************************************************************************)
\* a deleteDoc call of the list for the selected id is answered in this step
AnswersDeleteOf(deleting, deletingAfter, selected) ==
    \E k \in DOMAIN deleting :
      /\ deletingAfter = WithoutIndex(deleting, k)
      /\ deleting[k] = selected

\* C26 as stated: a step in which a deleteDoc call of a table is answered
\* clears the pending-delete selection only when the call was for the selected
\* id; finally of an earlier call clears the selection made afterwards for
\* another row
C26_AsStated ==
    [][ /\ ( /\ Len(catDeleting') < Len(catDeleting)
             /\ deleteCategoryId # Null
             /\ deleteCategoryId' = Null )
          => AnswersDeleteOf(catDeleting, catDeleting', deleteCategoryId)
        /\ ( /\ Len(prodDeleting') < Len(prodDeleting)
             /\ deleteProductId # Null
             /\ deleteProductId' = Null )
          => AnswersDeleteOf(prodDeleting, prodDeleting', deleteProductId) ]_vars

(***************************************************************************)
(* Claims about the write of a submit                                      *)
(***************************************************************************)
\* the two forms
Forms == {"CategoryForm", "ProductForm"}

\* the state of a session's form
FormOf(s, form) == IF form = "CategoryForm" THEN categoryForm[s] ELSE productForm[s]

\* the id the form of a session was opened with, undefined without one
GivenId(s, form) ==
    IF form = "CategoryForm" THEN categoryForm[s].categoryId ELSE productForm[s].productId

\* the collection a form writes to, as its place in Collections
CollectionOf(form) == IF form = "CategoryForm" THEN 4 ELSE 5

\* the toasts with which a form reports a saved document
SuccessToasts == {"Category updated", "Category created", "Updated", "Created"}

\* the write of a session's form that the store applied last
LastWriteOf(s, form) ==
    storeWrites[CHOOSE i \in WritesOf(s, form) : \A j \in WritesOf(s, form) : j <= i]

\* the step shows the success toast of a session's form
ShowsSuccess(s, form) ==
    /\ Len(FormOf(s, form).toasts') = Len(FormOf(s, form).toasts) + 1
    /\ FormOf(s, form).toasts'[Len(FormOf(s, form).toasts')] \in SuccessToasts

\* C27: the store applies at most one write per submit of a form; the write of
\* a form opened with an id is an updateDoc of that id, the write of a form
\* opened without one a setDoc under an id no document had, and the step
\* changes no other document; the success toast and the navigation to the
\* list page come in one step, after the store has applied the write of the
\* submit they report
C27_SubmitWritesOneDocument ==
    [][ \A s \in Sessions : \A form \in Forms :
          /\ Cardinality(WritesOf(s, form))' <= Cardinality(WritesOf(s, form)) + 1
          /\ Cardinality(WritesOf(s, form))' <=
               FormOf(s, form).submits'
                 - (IF FormOf(s, form).pc' \in {"upload", "write"} THEN 1 ELSE 0)
          /\ Cardinality(WritesOf(s, form))' > Cardinality(WritesOf(s, form)) =>
               LET w == storeWrites'[Len(storeWrites')]
               IN  /\ Len(storeWrites') = Len(storeWrites) + 1
                   /\ w.by = s /\ w.form = form
                   /\ TouchedDocs \subseteq {<<CollectionOf(form), w.id>>}
                   /\ IF Truthy(GivenId(s, form))
                      THEN w.op = "updateDoc" /\ w.id = GivenId(s, form)
                      ELSE /\ w.op = "setDoc"
                           /\ GetDoc(Collections[CollectionOf(form)], w.id) = NoDoc
                           /\ GetDoc(Collections'[CollectionOf(form)], w.id) # NoDoc
          /\ ShowsSuccess(s, form) =>
               /\ WritesOf(s, form) # {}
               /\ LastWriteOf(s, form).id =
                    (IF Truthy(GivenId(s, form)) THEN GivenId(s, form)
                     ELSE Uuid(s, FormOf(s, form).submits))
               /\ storeWrites' = storeWrites
               /\ FormOf(s, form).route' =
                    (IF form = "CategoryForm" THEN "/dashboard/categories"
                     ELSE "/dashboard/products")
      ]_vars

\* C27 witness: a CategoryForm opened with an id has saved with one updateDoc
\* of that id, and a second session's form opened without an id has saved with
\* one setDoc
C27_Witness ==
    \E s, t \in Sessions :
      /\ Truthy(categoryForm[s].categoryId)
      /\ categoryForm[s].pc = "left"
      /\ categoryForm[s].toasts = <<"Category updated">>
      /\ \E i \in WritesOf(s, "CategoryForm") :
           storeWrites[i].op = "updateDoc" /\ storeWrites[i].id = categoryForm[s].categoryId
      /\ ~Truthy(categoryForm[t].categoryId)
      /\ categoryForm[t].toasts = <<"Category created">>
      /\ \E i \in WritesOf(t, "CategoryForm") : storeWrites[i].op = "setDoc"

(***************************************************************************)
(* Claims about the filtered list and the full list                        *)
(***************************************************************************)
\* every row of the list is a row of the full list
RowsAmong(list, rows) ==
    \A i \in DOMAIN list : \E j \in DOMAIN rows : rows[j] = list[i]

\* C28: in each table whose filter effect has not thrown, after every step
\* (the load, a change of the query, an answered delete, each with its filter
\* effect) the filtered list is the full list filtered by the current query,
\* and every row of the filtered list is a row of the full list
C28_FilteredFollowsFullList ==
    /\ ~custCrashed =>
         /\ filteredCustomers = FilterCustomers(customers, custSearchQuery)
         /\ RowsAmong(filteredCustomers, customers)
    /\ ~catCrashed =>
         /\ filteredCategories = FilterCategories(categories, catSearchQuery)
         /\ RowsAmong(filteredCategories, categories)
    /\ ~prodCrashed =>
         /\ filteredProducts = FilterProducts(products, prodSearchQuery)
         /\ RowsAmong(filteredProducts, products)

\* C28 witness: ProductsTable has loaded two products, a non-empty query keeps
\* both, and the delete of one has been answered: the filtered list is the
\* one remaining row
C28_Witness ==
    /\ Len(prodSnapshot) = 2
    /\ ~prodCrashed
    /\ Truthy(prodSearchQuery)
    /\ prodDeleting = <<>>
    /\ toasts = <<"Product deleted">>
    /\ Len(products) = 1
    /\ filteredProducts = products

(***************************************************************************)
(* Claims about the end of a fetch                                         *)
(***************************************************************************)
\* the steps at which a fetch of a table, of a detail view or of an edit form
\* awaits the store
TableFetchAwaits == {"getCustomers", "getOrders", "getCategories", "getProducts"}
FormFetchAwaits == {"getCategory", "getProduct", "getSubcategories"}

\* the steps at which a fetch has handled its last response
FetchHandled == {"done", "failed", "notFound"}

\* C29: on a store that answers every read, no fetch of a table, of a detail
\* view or of an edit form awaits the store for ever, and whenever a fetch has
\* handled its last response (data, a missing document or a rejection) and no
\* submit is in flight, loading is false
C29_EveryFetchEndsLoading ==
    /\ []<>(custPc \notin TableFetchAwaits)
    /\ []<>(catPc \notin TableFetchAwaits)
    /\ []<>(prodPc \notin TableFetchAwaits)
    /\ []<>(customerDetails.pc \notin CustomerFetchAwaits)
    /\ []<>(orderDetails.pc \notin OrderFetchAwaits)
    /\ \A s \in Sessions :
         /\ []<>(categoryForm[s].pc \notin FormFetchAwaits)
         /\ []<>(productForm[s].pc \notin FormFetchAwaits)
    /\ [] /\ custPc \in FetchHandled => ~custLoading
          /\ catPc \in FetchHandled => ~catLoading
          /\ prodPc \in FetchHandled => ~prodLoading
          /\ customerDetails.pc \in FetchHandled => ~customerDetails.loading
          /\ orderDetails.pc \in FetchHandled => ~orderDetails.loading
          /\ \A s \in Sessions :
               /\ categoryForm[s].pc \in {"form", "left"} => ~categoryForm[s].loading
               /\ productForm[s].pc \in {"form", "left"} => ~productForm[s].loading

\* C29 witness: the fetch of CustomersTable was rejected and loading is false
C29_Witness ==
    /\ custPc = "failed"
    /\ ~custLoading
    /\ rejections = <<<<"CustomersTable.fetchCustomers", "notice">>>>

(***************************************************************************)
(* Claims about the two views of a customer's orders                       *)
(***************************************************************************)
\* the rows of CustomersTable for the customer CustomerDetails shows
RowsOfShownCustomer ==
    { i \in DOMAIN customers : customers[i].id = customerDetails.customerId }

\* the orders of the store whose userId equals the given one
OrdersOfUser(userId) ==
    { i \in DOMAIN ordersDocs : ordersDocs[i].userId = userId }

====
